---------------------------- MODULE Spec2Model ----------------------------
(***************************************************************************)
(* Verification model of the visualization data preparation code of        *)
(* mcp-neo4j-visualizer: the chart normalizer (processChartData), the      *)
(* chart classifier (determineChartType), the                              *)
(* hierarchical grouping (processHierarchicalGrouping) and the two         *)
(* force-directed layouts (calculateForceLayout, calculateNodeLayout).     *)
(*                                                                         *)
(* JavaScript values are represented by what the code observes of them:    *)
(*   - a chart value by its typeof tag and its ToNumber conversion,        *)
(*   - a value read by the normalizer by typeof, ToNumber, String(v),      *)
(*     truthiness and, for an object, its own entries in key order,        *)
(*   - a string by its sequence of UTF-16 code units,                      *)
(*   - a grouping property value by typeof, String(v) and truthiness,      *)
(*   - a coordinate by a fixed-point integer (Scale units per pixel).      *)
(***************************************************************************)
EXTENDS Integers, Sequences, FiniteSets, TLC

VARIABLES
    pc,          \* position of the modelled call: which step comes next
    queryData,   \* args.data of ChartVisualization.generate: the query result
    chartData,   \* result of processChartData, argument of determineChartType
    chartType,   \* value returned by determineChartType ("none" before the call)
    nodes,       \* argument of processHierarchicalGrouping: the ReactFlow nodes
    groupProperty, \* argument of processHierarchicalGrouping: the property name
    grouped,     \* nodes returned by processHierarchicalGrouping
    layoutFn,    \* the layout function called: "force" or "node"
    graphNodes,  \* argument nodes of the layout: sequence of node ids
    links,       \* argument links / edges of the layout: sequence of [source, target]
    positions,   \* the layout's positions object: node id -> coordinates
    iteration,   \* the loop variable of the layout's simulation loop
    args,        \* argument of ReactFlowVisualization.generate
    heap,        \* the properties objects the caller owns, by address
    flowNodes,   \* processedData.nodes, the nodes generate hands to the renderer
    forces,      \* forces of the running iteration: vx, vy (part_002), forces (reactflow.ts)
    cursor,      \* index of the element the running forEach visits next
    startPositions, \* history: the positions when the running iteration began
    allRecords,  \* table page script: const allRecords
    filteredRecords, \* table page script: let filteredRecords
    currentPage, \* table page script: let currentPage
    pageSize,    \* table page script: let pageSize, a number or 'all'
    pageRecords  \* the rows renderTable put into the table body

chartVars == <<queryData, chartData, chartType>>
groupVars == <<nodes, groupProperty, grouped>>
layoutVars == <<layoutFn, graphNodes, links, positions, iteration>>

flowVars == <<args, heap, flowNodes>>
loopVars == <<forces, cursor, startPositions>>
tableVars == <<allRecords, filteredRecords, currentPage, pageSize, pageRecords>>

vars == <<pc, chartVars, groupVars, layoutVars, flowVars, loopVars, tableVars>>

\* the variables of the calls a specification does not make
NoData == [kind |-> "none"]
NoChartCall == queryData = NoData /\ chartData = <<>> /\ chartType = "none"
NoGroupCall == nodes = <<>> /\ groupProperty = "g" /\ grouped = <<>>
NoLayoutCall ==
    /\ layoutFn = "none" /\ graphNodes = <<>> /\ links = <<>>
    /\ positions = <<>> /\ iteration = 0
NoArgs == [kind |-> "none"]
NoFlowCall == args = NoArgs /\ heap = <<>> /\ flowNodes = <<>>
NoLoopCall == forces = <<>> /\ cursor = 0 /\ startPositions = <<>>
NoTableCall ==
    /\ allRecords = <<>> /\ filteredRecords = <<>> /\ currentPage = 0
    /\ pageSize = [all |-> FALSE, size |-> 0] /\ pageRecords = <<>>

----------------------------------------------------------------------------
(* Bounds of the model *)

\* longest point sequence handed to determineChartType
MaxPoints == 21

\* longest node list handed to processHierarchicalGrouping
MaxNodes == 4

\* largest number of nodes handed to a layout function
MaxLayoutNodes == 4

\* resolution of the modelled coordinates: units per pixel
Scale == 10

----------------------------------------------------------------------------
(* Strings as sequences of UTF-16 code units *)

\* code unit of the decimal digit d
Digit(d) == 48 + d

\* String(i) for a natural number i < 100: decimal digits, no padding
NumberToString(i) ==
    IF i < 10 THEN <<Digit(i)>> ELSE <<Digit(i \div 10), Digit(i % 10)>>

\* two-digit zero-padded rendering of i < 100 ("01", "02", ...)
PaddedString(i) == <<Digit(i \div 10), Digit(i % 10)>>

\* JavaScript a > b on two strings: lexicographic order on code units,
\* a proper prefix is the smaller string
RECURSIVE StringGreater(_, _)
StringGreater(a, b) ==
    IF a = <<>> THEN FALSE
    ELSE IF b = <<>> THEN TRUE
    ELSE IF Head(a) # Head(b) THEN Head(a) > Head(b)
    ELSE StringGreater(Tail(a), Tail(b))

----------------------------------------------------------------------------
(* Chart values: typeof tag and ToNumber conversion (nan = conversion is NaN) *)

NumberValue(k) == [type |-> "number", num |-> k, nan |-> FALSE]
NaNValue == [type |-> "number", num |-> 0, nan |-> TRUE]
\* a string that converts to the number k, such as "5"
NumericString(k) == [type |-> "string", num |-> k, nan |-> FALSE]
\* a string that converts to no number, such as "abc"
WordString == [type |-> "string", num |-> 0, nan |-> TRUE]
UndefinedValue == [type |-> "undefined", num |-> 0, nan |-> TRUE]
NullValue == [type |-> "object", num |-> 0, nan |-> FALSE]

\* the values a point may carry in the model
Values ==
    {NumberValue(-1), NumberValue(0), NumberValue(1), NumberValue(11),
     NumberValue(12), NaNValue, NumericString(5), WordString, UndefinedValue,
     NullValue}

\* d.x / d.y are represented by their typeof tag
Coordinates == {"undefined", "number"}

Point(label, value, x, y) == [label |-> label, value |-> value, x |-> x, y |-> y]

----------------------------------------------------------------------------
(* determineChartType, chart.ts:189-220 (identical copy in index.ts:1945-1976) *)

\* v > 0 with JavaScript's numeric coercion of v
GreaterThanZero(v) == ~v.nan /\ v.num > 0

\* chartData.some(d => d.x !== undefined && d.y !== undefined)
hasXY(data) ==
    \E i \in 1..Len(data) : data[i].x # "undefined" /\ data[i].y # "undefined"

\* values.every(v => typeof v === 'number')
isAllNumeric(data) ==
    \A i \in 1..Len(data) : data[i].value.type = "number"

\* Math.max(...values) - Math.min(...values) > 10 on numbers; NaN poisons both
RangeAbove10(data) ==
    /\ \A i \in 1..Len(data) : ~data[i].value.nan
    /\ \E i, j \in 1..Len(data) : data[i].value.num - data[j].value.num > 10

\* mutant: the range test written >= 10
hasWideRange_AtLeast10(data) ==
    /\ isAllNumeric(data)
    /\ \A i \in 1..Len(data) : ~data[i].value.nan
    /\ \E i, j \in 1..Len(data) : data[i].value.num - data[j].value.num >= 10

hasWideRange(data) == isAllNumeric(data) /\ RangeAbove10(data)

\* mutant: the pie test written d.value >= 0
AllGreaterThanZero_OrZero(data) ==
    \A i \in 1..Len(data) : ~data[i].value.nan /\ data[i].value.num >= 0

\* chartData.every(d => d.value > 0)
AllGreaterThanZero(data) ==
    \A i \in 1..Len(data) : GreaterThanZero(data[i].value)

\* mutant: the label test written d.label >= chartData[i-1].label
hasSequentialLabels_NonStrict(data) ==
    /\ Len(data) > 3
    /\ \A i \in 2..Len(data) : ~StringGreater(data[i-1].label, data[i].label)

\* chartData.length > 3 && every((d, i) => i === 0 || d.label > chartData[i-1].label)
hasSequentialLabels(data) ==
    /\ Len(data) > 3
    /\ \A i \in 2..Len(data) : StringGreater(data[i].label, data[i-1].label)

\* mutant: the pie rule tried before the scatter rule
determineChartType_PieFirst(data) ==
    IF Len(data) = 0 THEN "bar"
    ELSE IF Len(data) <= 10 /\ AllGreaterThanZero(data) THEN "pie"
    ELSE IF hasXY(data) THEN "scatter"
    ELSE IF isAllNumeric(data) /\ hasWideRange(data) /\ Len(data) > 20 THEN "histogram"
    ELSE IF hasSequentialLabels(data) THEN "line"
    ELSE "bar"

\* mutant: the guard for the empty sequence left out
determineChartType_NoEmptyGuard(data) ==
    IF hasXY(data) THEN "scatter"
    ELSE IF isAllNumeric(data) /\ hasWideRange(data) /\ Len(data) > 20 THEN "histogram"
    ELSE IF Len(data) <= 10 /\ AllGreaterThanZero(data) THEN "pie"
    ELSE IF hasSequentialLabels(data) THEN "line"
    ELSE "bar"

determineChartType(data) ==
    IF Len(data) = 0 THEN "bar"
    ELSE IF hasXY(data) THEN "scatter"
    ELSE IF isAllNumeric(data) /\ hasWideRange(data) /\ Len(data) > 20 THEN "histogram"
    ELSE IF Len(data) <= 10 /\ AllGreaterThanZero(data) THEN "pie"
    ELSE IF hasSequentialLabels(data) THEN "line"
    ELSE "bar"

----------------------------------------------------------------------------
(* Inputs of the classifier: a family of point sequences with a bulk value, *)
(* one odd point (first or last) and a labelling                            *)

XYKinds == Coordinates \X Coordinates

Labellings == {"padded", "unpadded", "same", "repeat"}

\* label of the i-th point (1-based) under a labelling
LabelOf(labelling, i, oddAt) ==
    CASE labelling = "padded" -> PaddedString(i)
      [] labelling = "unpadded" -> NumberToString(i)
      [] labelling = "same" -> PaddedString(1)
      [] labelling = "repeat" ->
            IF i # oddAt THEN PaddedString(i)
            ELSE IF i > 1 THEN PaddedString(i - 1) ELSE PaddedString(2)

MakeChartData(n, bulk, odd, oddAt, xy, labelling) ==
    [i \in 1..n |->
        IF i = oddAt
        THEN Point(LabelOf(labelling, i, oddAt), odd, xy[1], xy[2])
        ELSE Point(LabelOf(labelling, i, oddAt), bulk, "undefined", "undefined")]

----------------------------------------------------------------------------
(* The chart classification call *)

ChartTypes == {"bar", "pie", "line", "scatter", "histogram"}

InitChart ==
    /\ pc = "classify"
    /\ \E n \in 0..MaxPoints, bulk \in Values, odd \in Values, xy \in XYKinds,
          labelling \in Labellings :
            \E oddAt \in {1, n} :
                chartData = MakeChartData(n, bulk, odd, oddAt, xy, labelling)
    /\ queryData = NoData
    /\ chartType = "none"
    /\ NoGroupCall
    /\ NoLayoutCall
    /\ NoFlowCall
    /\ NoLoopCall
    /\ NoTableCall

\* const chartType = this.determineChartType(chartData)
Classify ==
    /\ pc = "classify"
    /\ chartType' = determineChartType(chartData)
    /\ pc' = "classified"
    /\ UNCHANGED <<queryData, chartData, groupVars, layoutVars, flowVars, loopVars, tableVars>>

NextChart == Classify

SpecChart == InitChart /\ [][NextChart]_vars

----------------------------------------------------------------------------
(* Properties of the classifier, stated on the argument and the result *)

Classified == pc = "classified"

\* some point carries both x and y
SomePointHasXY ==
    \E i \in DOMAIN chartData :
        chartData[i].x = "number" /\ chartData[i].y = "number"

\* the value is a number (NaN is not)
IsNumber(v) == v.type = "number" /\ ~v.nan

\* the value is strictly positive, numeric strings counted by their number
IsPositive(v) == ~v.nan /\ v.num > 0

NumbersOf(data) == {data[i].value.num : i \in DOMAIN data}

\* largest minus smallest value of a non-empty all-number sequence
ValueRange(data) ==
    LET S == NumbersOf(data)
        hi == CHOOSE a \in S : \A b \in S : b <= a
        lo == CHOOSE a \in S : \A b \in S : a <= b
    IN  hi - lo

HistogramRule ==
    /\ \A i \in DOMAIN chartData : IsNumber(chartData[i].value)
    /\ Len(chartData) > 20
    /\ ValueRange(chartData) > 10

PieRule ==
    /\ Len(chartData) <= 10
    /\ \A i \in DOMAIN chartData : IsPositive(chartData[i].value)

LineRule ==
    /\ Len(chartData) > 3
    /\ \A i \in DOMAIN chartData :
          i >= 2 => StringGreater(chartData[i].label, chartData[i-1].label)

\* C1: a non-empty sequence in which some point has both x and y is
\* classified 'scatter', also when it has at most 10 points that are all
\* strictly positive (never 'pie').
C1_ScatterFirst ==
    (Classified /\ Len(chartData) > 0 /\ SomePointHasXY) => chartType = "scatter"

C1_Witness ==
    /\ Classified
    /\ SomePointHasXY
    /\ PieRule
    /\ Len(chartData) = 10
    /\ chartType = "scatter"

\* C2: with no point carrying both x and y, the result is 'histogram'
\* exactly when every value is a number, max - min > 10 and there are more
\* than 20 points.
C2_HistogramRule ==
    (Classified /\ ~SomePointHasXY) => (chartType = "histogram" <=> HistogramRule)

C2_Witness ==
    /\ Classified
    /\ ~SomePointHasXY
    /\ Len(chartData) = 21
    /\ ValueRange(chartData) = 11
    /\ chartType = "histogram"

\* C3: a non-empty sequence matching neither the scatter nor the histogram
\* rule is 'pie' exactly when it has at most 10 points and every value is
\* strictly positive.
C3_PieRule ==
    (Classified /\ Len(chartData) > 0 /\ ~SomePointHasXY /\ ~HistogramRule)
        => (chartType = "pie" <=> PieRule)

C3_Witness ==
    /\ Classified
    /\ Len(chartData) = 10
    /\ ~SomePointHasXY
    /\ chartType = "pie"

\* C4: a non-empty sequence matching none of the scatter, histogram and pie
\* rules is 'line' exactly when it has more than 3 points and every label is
\* greater (as a string) than the one before it, and 'bar' otherwise.
C4_LineOrBar ==
    (Classified /\ Len(chartData) > 0 /\ ~SomePointHasXY /\ ~HistogramRule /\ ~PieRule)
        => /\ chartType = "line" <=> LineRule
           /\ chartType = "bar" <=> ~LineRule

C4_Witness ==
    /\ Classified
    /\ Len(chartData) = 4
    /\ ~SomePointHasXY /\ ~PieRule
    /\ chartType = "line"

----------------------------------------------------------------------------
(* Grouping property values: typeof tag, String(v) as code units, truthiness *)

PropertyValue(type, str, truthy) == [type |-> type, str |-> str, truthy |-> truthy]

StringX == PropertyValue("string", <<88>>, TRUE)                 \* "X"
StringY == PropertyValue("string", <<89>>, TRUE)                 \* "Y"
StringOne == PropertyValue("string", <<49>>, TRUE)               \* "1"
NumberOne == PropertyValue("number", <<49>>, TRUE)               \* 1
NumberTwo == PropertyValue("number", <<50>>, TRUE)               \* 2
NumberZero == PropertyValue("number", <<48>>, FALSE)             \* 0
BooleanFalse == PropertyValue("boolean", <<102, 97, 108, 115, 101>>, FALSE)
EmptyString == PropertyValue("string", <<>>, FALSE)              \* ""
\* "constructor": a key every plain object inherits from Object.prototype
StringConstructor ==
    PropertyValue("string", <<99, 111, 110, 115, 116, 114, 117, 99, 116, 111, 114>>, TRUE)
\* the value read from a property the node does not have
Missing ==
    PropertyValue("undefined", <<117, 110, 100, 101, 102, 105, 110, 101, 100>>, FALSE)

PropertyValues ==
    {StringX, StringY, StringOne, NumberOne, NumberTwo, NumberZero, BooleanFalse,
     EmptyString, StringConstructor, Missing}

PropertyNames == {"g", "h"}

\* keys that read as a truthy non-array value on the empty object literal {}
ObjectPrototypeKeys == {StringConstructor.str}

\* "group-"
GroupPrefix == <<103, 114, 111, 117, 112, 45>>

\* a node without parentNode
NoParent == <<>>

\* ids "a", "b", "c", ... of the input nodes
NodeId(i) == <<96 + i>>

\* ids of the first input node: "a", or "group-X", an id of the form given
\* to group nodes (ids come from the database result as they are)
FirstIds == {NodeId(1), GroupPrefix \o <<88>>}

\* a node as built by processReactFlowData (reactflow.ts:763-781); its
\* properties record holds the property "g" (Missing when the node lacks it)
InputNode(id, value) ==
    [id |-> id, type |-> "lineageNode", properties |-> [g |-> value],
     parentNode |-> NoParent, extent |-> "none",
     position |-> [x |-> 0, y |-> 0], style |-> [width |-> 0, height |-> 0],
     childCount |-> 0]

----------------------------------------------------------------------------
(* processHierarchicalGrouping, reactflow.ts:827-898 (copy at 135-206) *)

\* node.data.properties[groupProperty]
GroupValueOf(node, prop) ==
    IF prop \in DOMAIN node.properties THEN node.properties[prop] ELSE Missing

Contains(seq, e) == \E i \in 1..Len(seq) : seq[i] = e

\* own keys of `groups` in the order in which the first loop creates them
RECURSIVE KeysInCreationOrder(_, _)
KeysInCreationOrder(ns, prop) ==
    IF ns = <<>> THEN <<>>
    ELSE LET before == KeysInCreationOrder(SubSeq(ns, 1, Len(ns) - 1), prop)
             v == GroupValueOf(ns[Len(ns)], prop)
         IN  IF v.truthy /\ ~Contains(before, v.str) THEN Append(before, v.str)
             ELSE before

\* the key is a canonical array index ("0", "1", "10", not "01")
IsArrayIndex(key) ==
    /\ Len(key) >= 1
    /\ \A i \in 1..Len(key) : key[i] \in 48..57
    /\ Len(key) > 1 => key[1] # 48

RECURSIVE KeyNumber(_)
KeyNumber(key) ==
    IF key = <<>> THEN 0
    ELSE KeyNumber(SubSeq(key, 1, Len(key) - 1)) * 10 + (key[Len(key)] - 48)

RECURSIVE AscendingKeys(_)
AscendingKeys(S) ==
    IF S = {} THEN <<>>
    ELSE LET m == CHOOSE k \in S : \A j \in S : KeyNumber(k) <= KeyNumber(j)
         IN  <<m>> \o AscendingKeys(S \ {m})

\* Object.entries(groups): array-index keys ascending, then the others in
\* creation order
ObjectEntriesOrder(keys) ==
    AscendingKeys({keys[i] : i \in {j \in 1..Len(keys) : IsArrayIndex(keys[j])}})
        \o SelectSeq(keys, LAMBDA k : ~IsArrayIndex(k))

\* groups[key] after the first loop
GroupNodes(ns, prop, key) ==
    SelectSeq(ns, LAMBDA n : GroupValueOf(n, prop).truthy /\ GroupValueOf(n, prop).str = key)

\* the nodes the first loop pushes to ungroupedNodes
FalsyNodes(ns, prop) == SelectSeq(ns, LAMBDA n : ~GroupValueOf(n, prop).truthy)

Maximum(a, b) == IF a >= b THEN a ELSE b

\* mutant: the container keeps its least height whatever the member count
ParentNode_LeastHeight(key, prop, count) ==
    [id |-> GroupPrefix \o key, type |-> "groupNode",
     properties |-> (prop :> PropertyValue("string", key, TRUE)),
     parentNode |-> NoParent, extent |-> "none",
     position |-> [x |-> 0, y |-> 0],
     style |-> [width |-> 300, height |-> 100],
     childCount |-> count]

\* reactflow.ts:851-870
ParentNode(key, prop, count) ==
    [id |-> GroupPrefix \o key, type |-> "groupNode",
     properties |-> (prop :> PropertyValue("string", key, TRUE)),
     parentNode |-> NoParent, extent |-> "none",
     position |-> [x |-> 0, y |-> 0],
     style |-> [width |-> 300, height |-> Maximum(100, count * 60 + 40)],
     childCount |-> count]

\* reactflow.ts:873-887, index counted from 0
ChildNode(node, parentId, index) ==
    [node EXCEPT !.parentNode = parentId, !.extent = "parent",
                 !.position = [x |-> 20, y |-> 40 + index * 60],
                 !.style = [width |-> 260, height |-> 50]]

ChildNodesOf(ns, prop, key) ==
    LET members == GroupNodes(ns, prop, key)
    IN  [i \in 1..Len(members) |-> ChildNode(members[i], GroupPrefix \o key, i - 1)]

\* the second loop, over Object.entries(groups)
RECURSIVE ParentNodes(_, _, _)
ParentNodes(ns, prop, entries) ==
    IF entries = <<>> THEN <<>>
    ELSE LET count == Len(GroupNodes(ns, prop, Head(entries)))
         IN  (IF count > 1 THEN <<ParentNode(Head(entries), prop, count)>> ELSE <<>>)
                \o ParentNodes(ns, prop, Tail(entries))

RECURSIVE ChildNodes(_, _, _)
ChildNodes(ns, prop, entries) ==
    IF entries = <<>> THEN <<>>
    ELSE LET members == GroupNodes(ns, prop, Head(entries))
         IN  (IF Len(members) > 1 THEN ChildNodesOf(ns, prop, Head(entries)) ELSE <<>>)
                \o ChildNodes(ns, prop, Tail(entries))

RECURSIVE SingleNodes(_, _, _)
SingleNodes(ns, prop, entries) ==
    IF entries = <<>> THEN <<>>
    ELSE LET members == GroupNodes(ns, prop, Head(entries))
         IN  (IF Len(members) > 1 THEN <<>> ELSE members)
                \o SingleNodes(ns, prop, Tail(entries))

\* groups[groupValue] reads an inherited member of {} for such a key, so no
\* array is created and groups[groupValue].push is not a function
PushRaises(ns, prop) ==
    \E i \in 1..Len(ns) :
        /\ GroupValueOf(ns[i], prop).truthy
        /\ GroupValueOf(ns[i], prop).str \in ObjectPrototypeKeys

\* the returned nodes: [...parentNodes, ...childNodes, ...ungroupedNodes];
\* error = the call ended in a TypeError
processHierarchicalGrouping(ns, prop) ==
    IF PushRaises(ns, prop) THEN [error |-> TRUE, nodes |-> <<>>]
    ELSE LET entries == ObjectEntriesOrder(KeysInCreationOrder(ns, prop))
         IN  [error |-> FALSE,
              nodes |-> ParentNodes(ns, prop, entries)
                            \o ChildNodes(ns, prop, entries)
                            \o FalsyNodes(ns, prop)
                            \o SingleNodes(ns, prop, entries)]

----------------------------------------------------------------------------
(* The grouping call *)

InitGroup ==
    /\ pc = "group"
    /\ \E n \in 0..MaxNodes :
          \E values \in [1..n -> PropertyValues], first \in FirstIds :
              nodes = [i \in 1..n |->
                          InputNode(IF i = 1 THEN first ELSE NodeId(i), values[i])]
    /\ groupProperty \in PropertyNames
    /\ grouped = <<>>
    /\ NoChartCall
    /\ NoLayoutCall
    /\ NoFlowCall
    /\ NoLoopCall
    /\ NoTableCall

\* const hierarchyResult = this.processHierarchicalGrouping(reactFlowNodes,
\*     reactFlowEdges, config.groupByProperty)
Group ==
    /\ pc = "group"
    /\ LET result == processHierarchicalGrouping(nodes, groupProperty)
       IN  /\ grouped' = result.nodes
           /\ pc' = IF result.error THEN "TypeError" ELSE "grouped"
    /\ UNCHANGED <<chartVars, nodes, groupProperty, layoutVars, flowVars, loopVars, tableVars>>

NextGroup == Group

SpecGroup == InitGroup /\ [][NextGroup]_vars

----------------------------------------------------------------------------
(* Properties of the grouping, stated on the argument and the result *)

GroupEnded == pc \in {"grouped", "TypeError"}

\* node i of the input carries the grouping property
Carries(i) ==
    /\ groupProperty \in DOMAIN nodes[i].properties
    /\ nodes[i].properties[groupProperty].type # "undefined"

\* string form of the grouping property of node i
FormOf(i) == nodes[i].properties[groupProperty].str

CarriedForms == {FormOf(i) : i \in {j \in DOMAIN nodes : Carries(j)}}

\* the input nodes holding a value with the given string form
Holders(form) == {i \in DOMAIN nodes : Carries(i) /\ FormOf(i) = form}

GroupId(form) == <<103, 114, 111, 117, 112, 45>> \o form

\* positions of the output holding the group node of a value
GroupNodesFor(form) ==
    {k \in DOMAIN grouped : grouped[k].type = "groupNode" /\ grouped[k].id = GroupId(form)}

\* positions of the output holding input node i
OutputsOf(i) ==
    {k \in DOMAIN grouped : grouped[k].type = "lineageNode" /\ grouped[k].id = nodes[i].id}

IdsOf(seq) == [k \in DOMAIN seq |-> seq[k].id]

\* C7: a property value held by exactly one node produces no group node and
\* that node is returned without parentNode; a value held by two or more
\* nodes produces exactly one group node for that value.
C7_SingletonRule ==
    GroupEnded =>
        \A form \in CarriedForms :
            /\ Cardinality(Holders(form)) = 1 =>
                  /\ GroupNodesFor(form) = {}
                  /\ \A i \in Holders(form) :
                        \E k \in OutputsOf(i) : grouped[k].parentNode = <<>>
            /\ Cardinality(Holders(form)) >= 2 =>
                  Cardinality(GroupNodesFor(form)) = 1

\* C8: every partition with two or more members gets one group node with id
\* "group-" + value and childCount = member count, its members follow as
\* children in input order with parentNode = that id, and no other node has
\* a parentNode.
C8_GroupContents ==
    GroupEnded =>
        /\ \A form \in CarriedForms :
              Cardinality(Holders(form)) >= 2 =>
                  /\ \E k \in DOMAIN grouped :
                        /\ GroupNodesFor(form) = {k}
                        /\ grouped[k].childCount = Cardinality(Holders(form))
                  /\ IdsOf(SelectSeq(grouped, LAMBDA n : n.parentNode = GroupId(form)))
                        = IdsOf(SelectSeq(nodes, LAMBDA n :
                                    /\ n.properties[groupProperty].type # "undefined"
                                    /\ n.properties[groupProperty].str = form))
        /\ \A k \in DOMAIN grouped :
              grouped[k].parentNode # <<>> =>
                  \E i \in DOMAIN nodes :
                      /\ Carries(i)
                      /\ grouped[k].id = nodes[i].id
                      /\ grouped[k].parentNode = GroupId(FormOf(i))
                      /\ Cardinality(Holders(FormOf(i))) >= 2

\* input nodes i and j end up as children of the same group
SameGroup(i, j) ==
    \E k \in OutputsOf(i), l \in OutputsOf(j) :
        grouped[k].parentNode # <<>> /\ grouped[k].parentNode = grouped[l].parentNode

\* C9: two nodes that carry the property are in the same partition exactly
\* when the string forms of their values are equal, whatever the value; a
\* node that lacks the property is returned ungrouped, without an error.
C9_PartitionByString ==
    GroupEnded =>
        /\ \A i, j \in DOMAIN nodes :
              (i # j /\ Carries(i) /\ Carries(j)) =>
                  (SameGroup(i, j) <=> FormOf(i) = FormOf(j))
        /\ (\A i \in DOMAIN nodes : ~Carries(i)) =>
              /\ pc = "grouped"
              /\ IdsOf(grouped) = IdsOf(nodes)
              /\ \A k \in DOMAIN grouped : grouped[k].parentNode = <<>>

----------------------------------------------------------------------------
(* Arithmetic of the layouts.  A coordinate or force c of the code is the   *)
(* integer c * Scale, rounded toward zero after each division.             *)

svgWidth == 600
svgHeight == 350
\* margin of calculateForceLayout and of calculateNodeLayout
ForceMargin == 40
NodeMargin == 60
\* loop bounds of the two simulations
ForceIterations == 100
NodeIterations == 50
\* force = 2000 / (distance * distance), resp. 1000 / (distance * distance)
ForceRepulsion == 2000
NodeRepulsion == 1000
\* force = distance * 0.02, resp. distance * 0.01, in hundredths
ForceAttraction == 2
NodeAttraction == 1
\* positions += forces * 0.1, as a divisor
NodeStepDivisor == 10

\* division rounding toward zero, b > 0
TruncDiv(a, b) == IF a >= 0 THEN a \div b ELSE -((-a) \div b)

Minimum(a, b) == IF a <= b THEN a ELSE b

RECURSIVE SqrtBetween(_, _, _)
SqrtBetween(v, lo, hi) ==
    IF lo >= hi THEN lo
    ELSE LET mid == (lo + hi + 1) \div 2
         IN  IF mid * mid <= v THEN SqrtBetween(v, mid, hi)
             ELSE SqrtBetween(v, lo, mid - 1)

\* Math.sqrt(v), rounded down
Sqrt(v) == SqrtBetween(v, 0, 2 * svgWidth * Scale)

\* Math.sqrt(dx * dx + dy * dy) || 1: only the distance 0 is replaced by 1
Distance(dx, dy) ==
    LET d == Sqrt(dx * dx + dy * dy)
    IN  IF d = 0 THEN Scale ELSE d

\* mutant: the upper limit of the clamp left out
Clamp_LowerOnly(c, margin, limit) == Maximum(margin * Scale, c)

\* Math.max(margin, Math.min(limit - margin, c))
Clamp(c, margin, limit) ==
    Maximum(margin * Scale, Minimum((limit - margin) * Scale, c))

\* Math.max(0.01, 1 - iteration / 100), in hundredths
Alpha(it) == Maximum(1, 100 - it)

\* amp * sin(pi * p / q) for 0 <= p <= q (Bhaskara's rational approximation,
\* exact at 0, 1/6, 1/2, 5/6 and 1 of the half turn)
HalfSine(p, q, amp) == TruncDiv(amp * 16 * p * (q - p), 5 * q * q - 4 * p * (q - p))

\* amp * Math.sin(2 * Math.PI * num / den)
Sine(num, den, amp) ==
    LET a == num % den
    IN  IF 2 * a <= den THEN HalfSine(2 * a, den, amp)
        ELSE -HalfSine(2 * a - den, den, amp)

\* amp * Math.cos(2 * Math.PI * num / den)
Cosine(num, den, amp) == Sine(4 * num + den, 4 * den, amp)

----------------------------------------------------------------------------
(* Forces of one iteration, computed from the positions at its start *)

\* what nodeB adds to the force on nodeA in the repulsion loop; k is the
\* repulsion constant, alpha the damping factor in hundredths
Repulsion(pos, a, b, k, alpha) ==
    LET dx == pos[a].x - pos[b].x
        dy == pos[a].y - pos[b].y
        distance == Distance(dx, dy)
        \* 100 * alpha * force, force = k / (distance * distance) in pixels
        force == (k * Scale * Scale * alpha) \div (distance * distance)
    IN  [x |-> TruncDiv(dx * force * Scale, distance * 100),
         y |-> TruncDiv(dy * force * Scale, distance * 100)]

RECURSIVE RepulsionSum(_, _, _, _, _)
\* the repulsion loop for nodeA over the nodes ns (nodeA itself is skipped)
RepulsionSum(pos, a, ns, k, alpha) ==
    IF ns = <<>> THEN [x |-> 0, y |-> 0]
    ELSE LET rest == RepulsionSum(pos, a, Tail(ns), k, alpha)
             term == IF Head(ns) = a THEN [x |-> 0, y |-> 0]
                     ELSE Repulsion(pos, a, Head(ns), k, alpha)
         IN  [x |-> rest.x + term.x, y |-> rest.y + term.y]

\* what one link adds to the force on node a; (dx / distance) * force with
\* force = distance * k / 100 is dx * k / 100
Attraction(pos, a, link, k, alpha) ==
    LET dx == pos[link.target].x - pos[link.source].x
        dy == pos[link.target].y - pos[link.source].y
        fx == TruncDiv(dx * k * alpha, 10000)
        fy == TruncDiv(dy * k * alpha, 10000)
        sign == (IF link.source = a THEN 1 ELSE 0) - (IF link.target = a THEN 1 ELSE 0)
    IN  [x |-> sign * fx, y |-> sign * fy]

RECURSIVE AttractionSum(_, _, _, _, _)
AttractionSum(pos, a, ls, k, alpha) ==
    IF ls = <<>> THEN [x |-> 0, y |-> 0]
    ELSE LET rest == AttractionSum(pos, a, Tail(ls), k, alpha)
             term == Attraction(pos, a, Head(ls), k, alpha)
         IN  [x |-> rest.x + term.x, y |-> rest.y + term.y]

\* positions[link.target] or positions[link.source] is undefined
Dangling(ls, ns) ==
    \E i \in 1..Len(ls) : ~Contains(ns, ls[i].source) \/ ~Contains(ns, ls[i].target)

----------------------------------------------------------------------------
(* calculateForceLayout, part_002:518-584 *)

\* Math.random() in thousandths, one pair (for x, for y) per node
RandomDraws == {<<0, 0>>, <<1, 0>>, <<999, 999>>}

\* margin + Math.random() * (limit - 2 * margin)
RandomCoordinate(draw, margin, limit) ==
    margin * Scale + (draw * (limit - 2 * margin) * Scale) \div 1000

\* one pass of the simulation loop body: reset, repulsion, attraction, apply
ForceIteration(pos, ns, ls, it) ==
    [id \in DOMAIN pos |->
        LET r == RepulsionSum(pos, id, ns, ForceRepulsion, Alpha(it))
            a == AttractionSum(pos, id, ls, ForceAttraction, Alpha(it))
            vx == r.x + a.x
            vy == r.y + a.y
        IN  [x |-> Clamp(pos[id].x + vx, ForceMargin, svgWidth),
             y |-> Clamp(pos[id].y + vy, ForceMargin, svgHeight),
             vx |-> vx, vy |-> vy]]

\* part_002:519-532: every node gets a random position
ForcePlace ==
    /\ pc = "layout" /\ layoutFn = "force"
    /\ \E draws \in [DOMAIN graphNodes -> RandomDraws] :
          positions' = [id \in DOMAIN graphNodes |->
              [x |-> RandomCoordinate(draws[id][1], ForceMargin, svgWidth),
               y |-> RandomCoordinate(draws[id][2], ForceMargin, svgHeight),
               vx |-> 0, vy |-> 0]]
    /\ iteration' = 0
    /\ pc' = "simulate"
    /\ UNCHANGED <<chartVars, groupVars, layoutFn, graphNodes, links,
                 flowVars, loopVars, tableVars>>

\* part_002:535-581: one iteration of the loop
ForceStep ==
    /\ pc = "simulate" /\ layoutFn = "force"
    /\ iteration < ForceIterations
    /\ ~Dangling(links, graphNodes)
    /\ positions' = ForceIteration(positions, graphNodes, links, iteration)
    /\ iteration' = iteration + 1
    /\ UNCHANGED <<pc, chartVars, groupVars, layoutFn, graphNodes, links,
                 flowVars, loopVars, tableVars>>

\* part_002:560-562: positions[link.target].x of an id that is no node
ForceRaise ==
    /\ pc = "simulate" /\ layoutFn = "force"
    /\ iteration < ForceIterations
    /\ Dangling(links, graphNodes)
    /\ pc' = "TypeError"
    /\ UNCHANGED <<chartVars, groupVars, layoutVars, flowVars, loopVars, tableVars>>

\* part_002:583
ForceReturn ==
    /\ pc = "simulate" /\ layoutFn = "force"
    /\ iteration = ForceIterations
    /\ pc' = "returned"
    /\ UNCHANGED <<chartVars, groupVars, layoutVars, flowVars, loopVars, tableVars>>

----------------------------------------------------------------------------
(* calculateNodeLayout, reactflow.ts:1784-1864 *)

NodeIteration(pos, ns, ls) ==
    [id \in DOMAIN pos |->
        LET r == RepulsionSum(pos, id, ns, NodeRepulsion, 100)
            a == AttractionSum(pos, id, ls, NodeAttraction, 100)
        IN  [x |-> Clamp(pos[id].x + TruncDiv(r.x + a.x, NodeStepDivisor),
                         NodeMargin, svgWidth),
             y |-> Clamp(pos[id].y + TruncDiv(r.y + a.y, NodeStepDivisor),
                         NodeMargin, svgHeight)]]

\* reactflow.ts:1790-1799: one node at the centre, two nodes at 1/3 and 2/3
NodeSmall ==
    /\ pc = "layout" /\ layoutFn = "node"
    /\ Len(graphNodes) \in {1, 2}
    /\ positions' =
          IF Len(graphNodes) = 1
          THEN <<[x |-> (svgWidth * Scale) \div 2, y |-> (svgHeight * Scale) \div 2]>>
          ELSE <<[x |-> (svgWidth * Scale) \div 3, y |-> (svgHeight * Scale) \div 2],
                 [x |-> (2 * svgWidth * Scale) \div 3, y |-> (svgHeight * Scale) \div 2]>>
    /\ pc' = "returned"
    /\ UNCHANGED <<chartVars, groupVars, layoutFn, graphNodes, links, iteration,
                 flowVars, loopVars, tableVars>>

\* reactflow.ts:1801-1813: the nodes are placed on a circle
NodeCircle ==
    /\ pc = "layout" /\ layoutFn = "node"
    /\ Len(graphNodes) \notin {1, 2}
    /\ LET centerX == (svgWidth * Scale) \div 2
           centerY == (svgHeight * Scale) \div 2
           radius == (Minimum(svgWidth, svgHeight) * Scale) \div 3
       IN  positions' = [id \in DOMAIN graphNodes |->
              [x |-> centerX + Cosine(id - 1, Len(graphNodes), radius),
               y |-> centerY + Sine(id - 1, Len(graphNodes), radius)]]
    /\ iteration' = 0
    /\ pc' = "simulate"
    /\ UNCHANGED <<chartVars, groupVars, layoutFn, graphNodes, links,
                 flowVars, loopVars, tableVars>>

\* reactflow.ts:1816-1861: one iteration of the loop
NodeStep ==
    /\ pc = "simulate" /\ layoutFn = "node"
    /\ iteration < NodeIterations
    /\ ~Dangling(links, graphNodes)
    /\ positions' = NodeIteration(positions, graphNodes, links)
    /\ iteration' = iteration + 1
    /\ UNCHANGED <<pc, chartVars, groupVars, layoutFn, graphNodes, links,
                 flowVars, loopVars, tableVars>>

\* reactflow.ts:1840-1842: positions[edge.target].x of an id that is no node
NodeRaise ==
    /\ pc = "simulate" /\ layoutFn = "node"
    /\ iteration < NodeIterations
    /\ Dangling(links, graphNodes)
    /\ pc' = "TypeError"
    /\ UNCHANGED <<chartVars, groupVars, layoutVars, flowVars, loopVars, tableVars>>

\* reactflow.ts:1863
NodeReturn ==
    /\ pc = "simulate" /\ layoutFn = "node"
    /\ iteration = NodeIterations
    /\ pc' = "returned"
    /\ UNCHANGED <<chartVars, groupVars, layoutVars, flowVars, loopVars, tableVars>>

----------------------------------------------------------------------------
(* The layout calls *)

Link(s, t) == [source |-> s, target |-> t]

\* the node ids are 1, 2, ...; 0 is an id that no node has
LinkChoices ==
    {<<>>, <<Link(1, 2)>>, <<Link(1, 1)>>, <<Link(1, 2), Link(2, 3)>>,
     <<Link(1, 0)>>, <<Link(0, 1)>>}

InitLayout ==
    /\ pc = "layout"
    /\ layoutFn \in {"force", "node"}
    /\ \E n \in 0..MaxLayoutNodes : graphNodes = [i \in 1..n |-> i]
    /\ links \in LinkChoices
    /\ positions = <<>>
    /\ iteration = 0
    /\ NoChartCall
    /\ NoGroupCall
    /\ NoFlowCall
    /\ NoLoopCall
    /\ NoTableCall

NextLayout ==
    \/ ForcePlace \/ ForceStep \/ ForceRaise \/ ForceReturn
    \/ NodeSmall \/ NodeCircle \/ NodeStep \/ NodeRaise \/ NodeReturn

SpecLayout == InitLayout /\ [][NextLayout]_vars

----------------------------------------------------------------------------
(* Properties of the layouts *)

\* the margin of the layout function that is running
MarginInUse == IF layoutFn = "force" THEN 40 ELSE 60

\* every coordinate of the positions object is within the margins of the
\* 600 x 350 canvas
WithinMargins ==
    \A id \in DOMAIN positions :
        /\ positions[id].x >= MarginInUse * Scale
        /\ positions[id].x <= (600 - MarginInUse) * Scale
        /\ positions[id].y >= MarginInUse * Scale
        /\ positions[id].y <= (350 - MarginInUse) * Scale

LiveLinks ==
    SelectSeq(links, LAMBDA l : Contains(graphNodes, l.source) /\ Contains(graphNodes, l.target))

\* C11: a layout call in which some edge names an id that is no node
\* completes without raising, that edge adds no force in any iteration, and
\* the returned position map has exactly one entry per node.
C11_DanglingSkipped ==
    [][Dangling(links, graphNodes) =>
          /\ pc' # "TypeError"
          /\ (pc = "simulate" /\ pc' = "simulate") =>
                positions' = IF layoutFn = "force"
                             THEN ForceIteration(positions, graphNodes, LiveLinks, iteration)
                             ELSE NodeIteration(positions, graphNodes, LiveLinks)
          /\ pc' = "returned" => DOMAIN positions' = DOMAIN graphNodes]_vars

\* C12: with one node the layout returns it at (width/2, height/2), with two
\* nodes at (width/3, height/2) and (2*width/3, height/2) in input order, in
\* both cases without running an iteration and whatever the edges; this for
\* calculateForceLayout and for calculateNodeLayout.
C12_SmallNodeCounts ==
    Len(graphNodes) \in {1, 2} =>
        /\ pc # "TypeError"
        /\ pc = "returned" =>
              /\ iteration = 0
              /\ \A id \in DOMAIN positions : positions[id].y = (svgHeight * Scale) \div 2
              /\ Len(graphNodes) = 1 => positions[1].x = (svgWidth * Scale) \div 2
              /\ Len(graphNodes) = 2 =>
                    /\ positions[1].x = (svgWidth * Scale) \div 3
                    /\ positions[2].x = (2 * svgWidth * Scale) \div 3

----------------------------------------------------------------------------
(* Values read by the normalizer: typeof tag, ToNumber (num, nan),          *)
(* String(v) as code units, truthiness, and the own entries of an object   *)

JSValue(type, num, nan, str, truthy, entries) ==
    [type |-> type, num |-> num, nan |-> nan, str |-> str, truthy |-> truthy,
     entries |-> entries]

\* the number k, 0 <= k < 100
JSNumber(k) == JSValue("number", k, FALSE, NumberToString(k), k # 0, <<>>)
JSNaN == JSValue("number", 0, TRUE, <<78, 97, 78>>, FALSE, <<>>)
\* a string that converts to no number, or the empty string (which converts to 0)
JSString(str) == JSValue("string", 0, str # <<>>, str, str # <<>>, <<>>)
JSTrue == JSValue("boolean", 1, FALSE, <<116, 114, 117, 101>>, TRUE, <<>>)
JSFalse == JSValue("boolean", 0, FALSE, <<102, 97, 108, 115, 101>>, FALSE, <<>>)
JSNull == JSValue("object", 0, FALSE, <<110, 117, 108, 108>>, FALSE, <<>>)
JSUndefined ==
    JSValue("undefined", 0, TRUE, <<117, 110, 100, 101, 102, 105, 110, 101, 100>>,
            FALSE, <<>>)
\* an object literal with the given entries <<key, value>>, in key order
JSObject(entries) ==
    JSValue("object", 0, TRUE,
            <<91, 111, 98, 106, 101, 99, 116, 32, 79, 98, 106, 101, 99, 116, 93>>,
            TRUE, entries)

\* v === null || v === undefined: the falsy values of typeof object or undefined
IsNullish(v) == ~v.truthy /\ v.type \in {"object", "undefined"}

\* the value as a point carries it
ChartValue(v) == [type |-> v.type, num |-> v.num, nan |-> v.nan]

\* string literals of the code and of the inputs
Unknown == <<85, 110, 107, 110, 111, 119, 110>>
RecordPrefix == <<82, 101, 99, 111, 114, 100, 32>>                \* "Record "
ItemPrefix == <<73, 116, 101, 109, 32>>                           \* "Item "
KeyName == <<110, 97, 109, 101>>                                  \* "name"
KeyTitle == <<116, 105, 116, 108, 101>>                           \* "title"
KeyId == <<105, 100>>                                             \* "id"
KeyLabel == <<108, 97, 98, 101, 108>>                             \* "label"
KeyCity == <<99, 105, 116, 121>>                                  \* "city"
KeySales == <<115, 97, 108, 101, 115>>                            \* "sales"
KeyProfit == <<112, 114, 111, 102, 105, 116>>                     \* "profit"
NYC == <<78, 89, 67>>
LA == <<76, 65>>
Person == <<80, 101, 114, 115, 111, 110>>
Company == <<67, 111, 109, 112, 97, 110, 121>>
WorksFor == <<87, 79, 82, 75, 83, 95, 70, 79, 82>>                \* "WORKS_FOR"
Knows == <<75, 78, 79, 87, 83>>                                   \* "KNOWS"

\* obj[key]: the value of the own entry, undefined when there is none
Get(obj, key) ==
    LET hits == SelectSeq(obj.entries, LAMBDA e : e[1] = key)
    IN  IF hits = <<>> THEN JSUndefined ELSE hits[1][2]

\* Object.keys(obj)
ObjectKeys(obj) == [i \in 1..Len(obj.entries) |-> obj.entries[i][1]]

\* a || b
Or(a, b) == IF a.truthy THEN a ELSE b

\* the result of a call: the points returned, or error when it raises
Returns(points) == [error |-> FALSE, points |-> points]
Raises == [error |-> TRUE, points |-> <<>>]

----------------------------------------------------------------------------
(* processChartData and its helpers, chart.ts:37-187 *)

\* the keys of a counting object `counts = {}` in the order of their creation
RECURSIVE DistinctInOrder(_)
DistinctInOrder(keys) ==
    IF keys = <<>> THEN <<>>
    ELSE LET before == DistinctInOrder(SubSeq(keys, 1, Len(keys) - 1))
             k == keys[Len(keys)]
         IN  IF Contains(before, k) THEN before ELSE Append(before, k)

Occurrences(keys, k) == Cardinality({i \in 1..Len(keys) : keys[i] = k})

\* counts[key] after `counts[key] = (counts[key] || 0) + 1` for every key of
\* keys: the number of occurrences; for a key that {} inherits the first read
\* yields a function, and function + 1 is a string that is no number
CountOf(keys, k) ==
    IF k \in ObjectPrototypeKeys THEN WordString ELSE NumberValue(Occurrences(keys, k))

\* Object.entries(counts).map(([label, count]) => ({label, value: count}))
FrequencyPoints(keys) ==
    LET order == ObjectEntriesOrder(DistinctInOrder(keys))
    IN  [i \in 1..Len(order) |->
            Point(order[i], CountOf(keys, order[i]), "undefined", "undefined")]

SomeNullish(items) == \E i \in 1..Len(items) : IsNullish(items[i])

\* chart.ts:165-173; Object.keys(firstRecord) raises for null and undefined,
\* which the callers' results account for
getNumericFields(records) ==
    IF Len(records) = 0 THEN <<>>
    ELSE LET numeric == SelectSeq(records[1].entries,
                                  LAMBDA e : e[2].type = "number" /\ ~e[2].nan)
         IN  [i \in 1..Len(numeric) |-> numeric[i][1]]

\* chart.ts:175-187; record[field] raises for a record that is null
createFrequencyData(records, field) ==
    IF SomeNullish(records) THEN Raises
    ELSE Returns(FrequencyPoints(
            [i \in 1..Len(records) |-> Or(Get(records[i], field), JSString(Unknown)).str]))

\* record.name || record.title || record.id || `Record ${index + 1}`
RecordLabel(record, index) ==
    Or(Get(record, KeyName),
       Or(Get(record, KeyTitle),
          Or(Get(record, KeyId), JSString(RecordPrefix \o NumberToString(index + 1))))).str

\* chart.ts:61-82
extractChartDataFromRecords(records) ==
    IF Len(records) = 0 THEN Returns(<<>>)
    ELSE IF IsNullish(records[1]) THEN Raises
    ELSE LET numericFields == getNumericFields(records)
         IN  IF numericFields = <<>>
             THEN \* const firstField = Object.keys(records[0])[0]; if (firstField)
                  IF ObjectKeys(records[1]) = <<>> \/ ObjectKeys(records[1])[1] = <<>>
                  THEN Returns(<<>>)
                  ELSE createFrequencyData(records, ObjectKeys(records[1])[1])
             ELSE IF SomeNullish(records) THEN Raises
             ELSE LET field == numericFields[1]
                      \* value: record[field] || 0
                      mapped == [i \in 1..Len(records) |->
                          [label |-> RecordLabel(records[i], i - 1),
                           value |-> Or(Get(records[i], field), JSNumber(0))]]
                      \* .filter(item => item.value !== null && item.value !== undefined)
                      kept == SelectSeq(mapped, LAMBDA item : ~IsNullish(item.value))
                  IN  Returns([i \in 1..Len(kept) |->
                          Point(kept[i].label, ChartValue(kept[i].value),
                                "undefined", "undefined")])

\* a node of the query result: labels is an array of strings, or is missing
Node(hasLabels, labels) == [hasLabels |-> hasLabels, labels |-> labels]

\* node.labels[0] || 'Unknown'
FirstLabel(node) ==
    IF node.labels = <<>> \/ node.labels[1] = <<>> THEN Unknown ELSE node.labels[1]

\* chart.ts:84-97; node.labels[0] raises for a node without labels
extractChartDataFromNodes(ns) ==
    IF \E i \in 1..Len(ns) : ~ns[i].hasLabels THEN Raises
    ELSE Returns(FrequencyPoints([i \in 1..Len(ns) |-> FirstLabel(ns[i])]))

KeyType == <<116, 121, 112, 101>>                                 \* "type"

\* chart.ts:99-112; the key is String(rel.type || 'Unknown')
extractChartDataFromRelationships(relationships) ==
    IF SomeNullish(relationships) THEN Raises
    ELSE Returns(FrequencyPoints(
            [i \in 1..Len(relationships) |->
                Or(Get(relationships[i], KeyType), JSString(Unknown)).str]))

\* item.name || item.label || item.title || `Item ${index + 1}`
ItemLabel(item, index) ==
    Or(Get(item, KeyName),
       Or(Get(item, KeyLabel),
          Or(Get(item, KeyTitle), JSString(ItemPrefix \o NumberToString(index + 1))))).str

\* chart.ts:114-144
extractChartDataFromArray(items) ==
    IF Len(items) = 0 THEN Returns(<<>>)
    \* typeof data[0] === 'object' holds for null, whose keys cannot be read
    ELSE IF items[1].type = "object" /\ IsNullish(items[1]) THEN Raises
    ELSE IF items[1].type = "object" /\ getNumericFields(items) # <<>>
    THEN IF SomeNullish(items) THEN Raises
         ELSE LET field == getNumericFields(items)[1]
              IN  Returns([i \in 1..Len(items) |->
                      Point(ItemLabel(items[i], i - 1),
                            ChartValue(Or(Get(items[i], field), JSNumber(0))),
                            "undefined", "undefined")])
    ELSE IF items[1].type \in {"string", "number"}
    THEN Returns(FrequencyPoints([i \in 1..Len(items) |-> items[i].str]))
    ELSE Returns(<<>>)

\* chart.ts:146-163
extractChartDataFromObject(value) ==
    IF ~value.truthy \/ value.type # "object" THEN Returns(<<>>)
    ELSE LET numericEntries == SelectSeq(value.entries,
                                   LAMBDA e : e[2].type = "number" /\ ~e[2].nan)
         IN  Returns([i \in 1..Len(numericEntries) |->
                 Point(numericEntries[i][1], ChartValue(numericEntries[i][2]),
                       "undefined", "undefined")])

\* the argument of processChartData: the value itself (a primitive, null,
\* undefined or an object with its other entries), whether it is an array and
\* of which items, and those of its properties records, nodes and
\* relationships that are arrays
Input(value, isArray, items, collections) ==
    [kind |-> "data", value |-> value, isArray |-> isArray, items |-> items,
     collections |-> collections]

HasArray(d, name) == name \in DOMAIN d.collections

\* mutant: the nodes are looked at before the records
processChartData_NodesFirst(d) ==
    IF IsNullish(d.value) THEN Raises
    ELSE IF HasArray(d, "nodes") THEN extractChartDataFromNodes(d.collections["nodes"])
    ELSE IF HasArray(d, "records") THEN extractChartDataFromRecords(d.collections["records"])
    ELSE IF HasArray(d, "relationships")
    THEN extractChartDataFromRelationships(d.collections["relationships"])
    ELSE IF d.isArray THEN extractChartDataFromArray(d.items)
    ELSE extractChartDataFromObject(d.value)

\* chart.ts:37-59; data.records raises for null and undefined
processChartData(d) ==
    IF IsNullish(d.value) THEN Raises
    ELSE IF HasArray(d, "records") THEN extractChartDataFromRecords(d.collections["records"])
    ELSE IF HasArray(d, "nodes") THEN extractChartDataFromNodes(d.collections["nodes"])
    ELSE IF HasArray(d, "relationships")
    THEN extractChartDataFromRelationships(d.collections["relationships"])
    ELSE IF d.isArray THEN extractChartDataFromArray(d.items)
    ELSE extractChartDataFromObject(d.value)

----------------------------------------------------------------------------
(* Inputs of the normalizer *)

\* longest records, nodes, relationships or array input
MaxItems == 4

RecordNYC == JSObject(<< <<KeyCity, JSString(NYC)>> >>)
RecordLA == JSObject(<< <<KeyCity, JSString(LA)>> >>)
RecordEmptyCity == JSObject(<< <<KeyCity, JSString(<<>>)>> >>)
RecordFalseCity == JSObject(<< <<KeyCity, JSFalse>> >>)
RecordConstructor == JSObject(<< <<KeyCity, JSString(StringConstructor.str)>> >>)
RecordNoKeys == JSObject(<<>>)
RecordSales ==
    JSObject(<< <<KeyName, JSString(<<65>>)>>, <<KeySales, JSNumber(5)>>,
                <<KeyProfit, JSNumber(3)>> >>)
RecordNullSales ==
    JSObject(<< <<KeyTitle, JSString(<<84>>)>>, <<KeySales, JSNull>> >>)
RecordZeroSales ==
    JSObject(<< <<KeyId, JSString(<<73>>)>>, <<KeySales, JSNumber(0)>> >>)
RecordUnnamed == JSObject(<< <<KeySales, JSNumber(7)>> >>)
RecordLabelled ==
    JSObject(<< <<KeyLabel, JSString(<<76>>)>>, <<KeySales, JSNumber(3)>> >>)

RecordChoices ==
    {RecordNYC, RecordLA, RecordEmptyCity, RecordFalseCity, RecordConstructor,
     RecordNoKeys, RecordSales, RecordNullSales, RecordZeroSales, RecordUnnamed,
     JSNull}

ArrayChoices ==
    {RecordNYC, RecordSales, RecordNullSales, RecordUnnamed, RecordLabelled, JSNull,
     JSString(NYC), JSString(LA), JSString(StringConstructor.str), JSNumber(5),
     JSTrue}

NodeChoices ==
    {Node(TRUE, <<Person>>), Node(TRUE, <<Company>>), Node(TRUE, <<Company, Person>>),
     Node(TRUE, <<>>), Node(TRUE, << <<>> >>), Node(TRUE, <<Unknown>>),
     Node(TRUE, <<StringConstructor.str>>), Node(FALSE, <<>>)}

Relationship(type) == JSObject(<< <<KeyType, type>> >>)

RelationshipChoices ==
    {Relationship(JSString(WorksFor)), Relationship(JSString(Knows)),
     Relationship(JSString(<<>>)), Relationship(JSString(StringConstructor.str)),
     JSObject(<<>>)}

ObjectChoices ==
    {RecordNoKeys, RecordNYC, RecordSales, RecordNullSales, RecordZeroSales,
     JSObject(<< <<KeySales, JSNaN>>, <<KeyProfit, JSNumber(3)>> >>)}

PrimitiveChoices == {JSNull, JSUndefined, JSNumber(5), JSString(NYC), JSTrue}

\* n items: a, b, and then c repeated
MakeItems(n, a, b, c) == [i \in 1..n |-> IF i = 1 THEN a ELSE IF i = 2 THEN b ELSE c]

NoCollections == <<>>

CollectionInput(name, items) == Input(JSObject(<<>>), FALSE, <<>>, name :> items)

----------------------------------------------------------------------------
(* ChartVisualization.generate, chart.ts:5-35 *)

InitNormalize ==
    /\ pc = "normalize"
    /\ \E n \in 0..MaxItems :
          \/ \E a, b, c \in RecordChoices :
                queryData = CollectionInput("records", MakeItems(n, a, b, c))
          \/ \E a, b, c \in NodeChoices :
                queryData = CollectionInput("nodes", MakeItems(n, a, b, c))
          \/ \E a, b, c \in RelationshipChoices :
                queryData = CollectionInput("relationships", MakeItems(n, a, b, c))
          \/ \E a, b, c \in ArrayChoices :
                queryData = Input(JSObject(<<>>), TRUE, MakeItems(n, a, b, c), NoCollections)
          \/ \E value \in ObjectChoices \cup PrimitiveChoices :
                queryData = Input(value, FALSE, <<>>, NoCollections)
          \/ \E a \in RecordChoices, b \in NodeChoices, c \in RelationshipChoices :
                queryData \in
                    {Input(JSObject(<<>>), FALSE, <<>>,
                           ("records" :> <<a>>) @@ ("nodes" :> <<b>>)),
                     Input(JSObject(<<>>), FALSE, <<>>,
                           ("nodes" :> <<b>>) @@ ("relationships" :> <<c>>)),
                     Input(JSObject(<<>>), FALSE, <<>>,
                           ("records" :> <<>>) @@ ("nodes" :> <<b>>)),
                     Input(JSObject(<<>>), FALSE, <<>>,
                           ("records" :> <<>>) @@ ("relationships" :> <<c>>)),
                     Input(JSObject(<<>>), FALSE, <<>>,
                           ("nodes" :> <<>>) @@ ("relationships" :> <<c>>)),
                     Input(JSObject(<<>>), FALSE, <<>>,
                           ("records" :> <<a>>) @@ ("nodes" :> <<b>>)
                               @@ ("relationships" :> <<c>>))}
    /\ chartData = <<>>
    /\ chartType = "none"
    /\ NoGroupCall
    /\ NoLayoutCall
    /\ NoFlowCall
    /\ NoLoopCall
    /\ NoTableCall

\* mutant: the test for no data left out
Normalize_NoEmptyTest ==
    /\ pc = "normalize"
    /\ LET result == processChartData(queryData)
       IN  IF result.error
           THEN pc' = "TypeError" /\ UNCHANGED chartData
           ELSE chartData' = result.points /\ pc' = "classify"
    /\ UNCHANGED <<queryData, chartType, groupVars, layoutVars, flowVars, loopVars, tableVars>>

\* chart.ts:9-21: processChartData, then the test for no data
Normalize ==
    /\ pc = "normalize"
    /\ LET result == processChartData(queryData)
       IN  IF result.error
           THEN pc' = "TypeError" /\ UNCHANGED chartData
           ELSE /\ chartData' = result.points
                /\ pc' = IF Len(result.points) = 0 THEN "empty" ELSE "classify"
    /\ UNCHANGED <<queryData, chartType, groupVars, layoutVars, flowVars, loopVars, tableVars>>

NextNormalize == Normalize \/ Classify

SpecNormalize == InitNormalize /\ [][NextNormalize]_vars

----------------------------------------------------------------------------
(* Properties of the normalizer, stated on the query result and the points *)

\* processChartData has returned
Normalized == pc \in {"empty", "classify", "classified"}

\* the call has returned or raised
NormalizeEnded == Normalized \/ pc = "TypeError"

LabelsDistinct ==
    \A i, j \in DOMAIN chartData : chartData[i].label = chartData[j].label => i = j

\* the points are the counts of the keys: one point per distinct key, its
\* value the number of occurrences of the key
CountsOf(keys) ==
    /\ LabelsDistinct
    /\ {chartData[i].label : i \in DOMAIN chartData} = {keys[i] : i \in DOMAIN keys}
    /\ \A i \in DOMAIN chartData :
          chartData[i].value = NumberValue(Occurrences(keys, chartData[i].label))

RECURSIVE SumOfValues(_)
SumOfValues(points) ==
    IF points = <<>> THEN 0 ELSE Head(points).value.num + SumOfValues(Tail(points))

RecordsInput == queryData.kind = "data" /\ HasArray(queryData, "records")
TheRecords == queryData.collections["records"]

\* a non-empty records list whose first record has a first key and no
\* numeric field
FrequencyCase ==
    /\ RecordsInput
    /\ Len(TheRecords) >= 1
    /\ ~IsNullish(TheRecords[1])
    /\ ObjectKeys(TheRecords[1]) # <<>>
    /\ getNumericFields(TheRecords) = <<>>

\* the string value a record holds for the key: String(v), and "Unknown"
\* for a record that has no value for it
HeldString(record, key) ==
    IF IsNullish(record) \/ IsNullish(Get(record, key)) THEN Unknown
    ELSE Get(record, key).str

\* C13: for a non-empty records list whose first record has no numeric
\* field, processChartData returns one point per distinct string value of
\* the first record's first key over all records, with value the number of
\* records holding that value, so the values sum to the number of records.
C13_FrequencyFallback ==
    (NormalizeEnded /\ FrequencyCase) =>
        /\ Normalized
        /\ CountsOf([i \in DOMAIN TheRecords |->
                        HeldString(TheRecords[i], ObjectKeys(TheRecords[1])[1])])
        /\ SumOfValues(chartData) = Len(TheRecords)

NodesInput ==
    /\ queryData.kind = "data"
    /\ ~HasArray(queryData, "records") /\ HasArray(queryData, "nodes")
TheNodes == queryData.collections["nodes"]

RelationshipsInput ==
    /\ queryData.kind = "data"
    /\ ~HasArray(queryData, "records") /\ ~HasArray(queryData, "nodes")
    /\ HasArray(queryData, "relationships")
TheRelationships == queryData.collections["relationships"]

ArrayInput ==
    /\ queryData.kind = "data" /\ queryData.isArray
    /\ DOMAIN queryData.collections = {}

PlainInput ==
    /\ queryData.kind = "data" /\ ~queryData.isArray
    /\ DOMAIN queryData.collections = {}

IsNumeric(v) == v.type = "number" /\ ~v.nan

\* the inputs that hold no point: {records: []} and records
\* that are null or have no keys, nodes without labels, the empty array, an
\* object without numeric property, null, undefined and primitives
NoPointInput ==
    \/ RecordsInput /\ \A i \in DOMAIN TheRecords :
            IsNullish(TheRecords[i]) \/ ObjectKeys(TheRecords[i]) = <<>>
    \/ NodesInput /\ Len(TheNodes) >= 1 /\ \A i \in DOMAIN TheNodes : ~TheNodes[i].hasLabels
    \/ ArrayInput /\ queryData.items = <<>>
    \/ PlainInput /\ \A i \in DOMAIN queryData.value.entries :
            ~IsNumeric(queryData.value.entries[i][2])

\* C14: processChartData never raises, and for an input that holds no point
\* it returns the empty sequence.
C14_NeverThrows ==
    NormalizeEnded =>
        /\ pc # "TypeError"
        /\ NoPointInput => chartData = <<>>

\* a records list whose first record has a numeric field
NumericCase ==
    /\ RecordsInput
    /\ Len(TheRecords) >= 1
    /\ ~IsNullish(TheRecords[1])
    /\ getNumericFields(TheRecords) # <<>>

\* the first key of the object whose value is a number
FirstNumericOf(first) ==
    LET k == CHOOSE i \in DOMAIN first.entries :
                /\ IsNumeric(first.entries[i][2])
                /\ \A j \in 1..(i - 1) : ~IsNumeric(first.entries[j][2])
    IN  first.entries[k][1]

FirstNumericField == FirstNumericOf(TheRecords[1])

\* indices of the records whose value for the field is not null or undefined
RECURSIVE IndicesWithValue(_, _, _)
IndicesWithValue(records, field, i) ==
    IF i > Len(records) THEN <<>>
    ELSE (IF IsNullish(Get(records[i], field)) THEN <<>> ELSE <<i>>)
            \o IndicesWithValue(records, field, i + 1)

\* name, else title, else id, else "Record {i}", i counted from 1
FirstPresent(record, keys, fallback) ==
    LET present == SelectSeq(keys, LAMBDA k : ~IsNullish(Get(record, k)))
    IN  IF present = <<>> THEN fallback ELSE Get(record, present[1]).str

\* C15: when the first record has a numeric field f, the first in key
\* order, the points are, in order, those of the records whose f is not null
\* or undefined: label = name, else title, else id, else "Record {i+1}", and
\* value = record[f].
C15_NumericField ==
    (NormalizeEnded /\ NumericCase) =>
        LET kept == IndicesWithValue(TheRecords, FirstNumericField, 1)
        IN  /\ Normalized
            /\ Len(chartData) = Len(kept)
            /\ \A k \in DOMAIN kept :
                  /\ k \in DOMAIN chartData
                  /\ chartData[k].label =
                        FirstPresent(TheRecords[kept[k]], <<KeyName, KeyTitle, KeyId>>,
                                     RecordPrefix \o NumberToString(kept[k]))
                  /\ chartData[k].value =
                        ChartValue(Get(TheRecords[kept[k]], FirstNumericField))

\* the first label of the node, "Unknown" for a node with empty labels
NodeKey(node) == IF node.labels = <<>> THEN Unknown ELSE node.labels[1]

\* the type of the relationship, "Unknown" by default
RelationshipKey(rel) ==
    IF IsNullish(Get(rel, KeyType)) THEN Unknown ELSE Get(rel, KeyType).str

\* C16: for a nodes input the points are the counts of the first labels, a
\* node with empty labels counted under "Unknown"; for a relationships input
\* the counts of the types, "Unknown" by default; the labels of the points
\* are pairwise distinct and the values sum to the number of elements.
C16_GraphFrequency ==
    /\ (NormalizeEnded /\ NodesInput /\ \A i \in DOMAIN TheNodes : TheNodes[i].hasLabels) =>
          /\ Normalized
          /\ CountsOf([i \in DOMAIN TheNodes |-> NodeKey(TheNodes[i])])
          /\ SumOfValues(chartData) = Len(TheNodes)
    /\ (NormalizeEnded /\ RelationshipsInput) =>
          /\ Normalized
          /\ CountsOf([i \in DOMAIN TheRelationships |->
                          RelationshipKey(TheRelationships[i])])
          /\ SumOfValues(chartData) = Len(TheRelationships)

\* the array holds objects only, resp. strings, numbers and booleans only
ArrayOfObjects ==
    /\ ArrayInput /\ queryData.items # <<>>
    /\ \A i \in DOMAIN queryData.items :
          queryData.items[i].type = "object" /\ ~IsNullish(queryData.items[i])
ArrayOfPrimitives ==
    /\ ArrayInput /\ queryData.items # <<>>
    /\ \A i \in DOMAIN queryData.items :
          queryData.items[i].type \in {"string", "number", "boolean"}

\* C17: an array of objects is treated like records: with a numeric field f
\* of the first element, one point per element with label = name, else
\* label, else title, else "Item {i+1}" and value = element[f]; without one,
\* the counts of the values of the first key.  An array of primitives gives
\* the counts of the stringified primitives.
C17_SequenceInput ==
    /\ (NormalizeEnded /\ ArrayOfObjects /\ getNumericFields(queryData.items) # <<>>) =>
          LET f == FirstNumericOf(queryData.items[1])
              kept == IndicesWithValue(queryData.items, f, 1)
          IN  /\ Normalized
              /\ Len(chartData) = Len(kept)
              /\ \A k \in DOMAIN kept :
                    /\ k \in DOMAIN chartData
                    /\ chartData[k].label =
                          FirstPresent(queryData.items[kept[k]],
                                       <<KeyName, KeyLabel, KeyTitle>>,
                                       ItemPrefix \o NumberToString(kept[k]))
                    /\ chartData[k].value = ChartValue(Get(queryData.items[kept[k]], f))
    /\ (NormalizeEnded /\ ArrayOfObjects /\ getNumericFields(queryData.items) = <<>>
            /\ ObjectKeys(queryData.items[1]) # <<>>) =>
          /\ Normalized
          /\ CountsOf([i \in DOMAIN queryData.items |->
                          HeldString(queryData.items[i], ObjectKeys(queryData.items[1])[1])])
    /\ (NormalizeEnded /\ ArrayOfPrimitives) =>
          /\ Normalized
          /\ CountsOf([i \in DOMAIN queryData.items |-> queryData.items[i].str])

\* three or four records, the first numeric field of the first being sales
\* and every record having a positive number of sales
SalesRecords ==
    /\ NumericCase
    /\ Len(TheRecords) \in {3, 4}
    /\ FirstNumericField = KeySales
    /\ \A i \in DOMAIN TheRecords :
          IsNumeric(Get(TheRecords[i], KeySales)) /\ Get(TheRecords[i], KeySales).num > 0

\* three relationships, two of type WORKS_FOR and one of type KNOWS
WorksForKnows ==
    /\ RelationshipsInput
    /\ Len(TheRelationships) = 3
    /\ LET keys == [i \in DOMAIN TheRelationships |-> RelationshipKey(TheRelationships[i])]
       IN  Occurrences(keys, WorksFor) = 2 /\ Occurrences(keys, Knows) = 1

\* C20: the chart choices of the README hold for generate: records with 3 or
\* 4 positive sales give the sales as values and a bar chart; relationships
\* counted as WORKS_FOR: 2, KNOWS: 1 give a bar chart.
C20_ReadmeChartChoices ==
    /\ (NormalizeEnded /\ SalesRecords) =>
          /\ pc \in {"classify", "classified"}
          /\ Len(chartData) = Len(TheRecords)
          /\ \A i \in DOMAIN TheRecords :
                chartData[i].value = ChartValue(Get(TheRecords[i], KeySales))
          /\ pc = "classified" => chartType = "bar"
    /\ (NormalizeEnded /\ WorksForKnows) =>
          /\ pc \in {"classify", "classified"}
          /\ Len(chartData) = 2
          /\ \E i, j \in DOMAIN chartData :
                /\ chartData[i].label = WorksFor /\ chartData[i].value = NumberValue(2)
                /\ chartData[j].label = Knows /\ chartData[j].value = NumberValue(1)
          /\ pc = "classified" => chartType = "bar"

----------------------------------------------------------------------------
(* ReactFlowVisualization.generate, reactflow.ts:670-759, with               *)
(* processReactFlowData (761-825) and applyReactFlowLayout (900-926).       *)
(* The caller's nodes refer to their properties objects by address, so that *)
(* a reference copied into the result is seen as the same object.  The      *)
(* relationships are mapped to edges and handed through unchanged; they     *)
(* have no part in the grouping or in the layout and are left out.          *)

\* largest number of nodes handed to generate
MaxFlowNodes == 3

\* a Neo4jNode of the caller; properties is the address of its properties object
Neo4jNode(id, address) == [id |-> id, properties |-> address]

\* an optional argument: <<>> when absent, <<v>> when given as v
Option(name, choice) == IF choice = <<>> THEN <<>> ELSE name :> choice[1]

Arguments(ns, sizes, lineageConfig) ==
    [kind |-> "args", nodes |-> ns, sizes |-> sizes, lineageConfig |-> lineageConfig]

\* const {width = 1200, height = 800} = args and the literal `config`
\* (reactflow.ts:679-700): a default applies only to an option that is not
\* given, because ...lineageConfig is spread after the defaults
ConfigOf(a) ==
    LET given(name, default) ==
            IF name \in DOMAIN a.lineageConfig THEN <<a.lineageConfig[name]>> ELSE default
        size(name, default) ==
            IF name \in DOMAIN a.sizes THEN a.sizes[name] ELSE default
    IN  [width |-> size("width", 1200),
         height |-> size("height", 800),
         nodeSpacing |-> given("nodeSpacing", <<100>>)[1],
         rankSpacing |-> given("rankSpacing", <<150>>)[1],
         showHierarchy |-> given("showHierarchy", <<TRUE>>)[1],
         groupByProperty |-> given("groupByProperty", <<>>)]

\* reactflow.ts:763-781: data.properties is node.properties itself; the node
\* carries the value read through the reference and the reference
ReactFlowNode(node, objects) ==
    [InputNode(node.id, Missing) EXCEPT !.properties = objects[node.properties]]
        @@ ("propertiesRef" :> node.properties)

\* Math.ceil(Math.sqrt(n))
CeilSqrt(n) == CHOOSE k \in 0..n : k * k >= n /\ \A j \in 0..(k - 1) : j * j < n

\* reactflow.ts:900-926
applyReactFlowLayout(ns, config) ==
    LET cols == CeilSqrt(Len(SelectSeq(ns, LAMBDA n : n.parentNode = NoParent)))
    IN  [i \in 1..Len(ns) |->
            IF ns[i].parentNode # NoParent THEN ns[i]
            ELSE [ns[i] EXCEPT !.position =
                    [x |-> ((i - 1) % cols) * (config.nodeSpacing + 200),
                     y |-> ((i - 1) \div cols) * (config.rankSpacing + 100)]]]

\* reactflow.ts:761-825
processReactFlowData(ns, objects, config) ==
    LET reactFlowNodes == [i \in 1..Len(ns) |-> ReactFlowNode(ns[i], objects)]
        hierarchyResult ==
            IF config.showHierarchy /\ config.groupByProperty # <<>>
            THEN processHierarchicalGrouping(reactFlowNodes, config.groupByProperty[1])
            ELSE [error |-> FALSE, nodes |-> reactFlowNodes]
    IN  IF hierarchyResult.error THEN hierarchyResult
        ELSE [error |-> FALSE,
              nodes |-> applyReactFlowLayout(hierarchyResult.nodes, config)]

FlowValues == {StringX, NumberZero, StringConstructor, Missing}

InitFlow ==
    /\ pc = "generate"
    /\ \E n \in 0..MaxFlowNodes :
          \E values \in [1..n -> FlowValues],
             width \in {<<>>, <<0>>}, height \in {<<>>, <<-1>>},
             nodeSpacing \in {<<>>, <<-300>>, <<0>>, <<50>>},
             rankSpacing \in {<<>>, <<-150>>},
             groupByProperty \in {<<>>, <<"g">>},
             showHierarchy \in {<<>>, <<FALSE>>} :
                /\ heap = [a \in 1..n |-> [g |-> values[a]]]
                /\ args = Arguments([i \in 1..n |-> Neo4jNode(NodeId(i), i)],
                                    Option("width", width) @@ Option("height", height),
                                    Option("nodeSpacing", nodeSpacing)
                                        @@ Option("rankSpacing", rankSpacing)
                                        @@ Option("groupByProperty", groupByProperty)
                                        @@ Option("showHierarchy", showHierarchy))
    /\ flowNodes = <<>>
    /\ NoChartCall
    /\ NoGroupCall
    /\ NoLayoutCall
    /\ NoLoopCall
    /\ NoTableCall

\* generate: the configuration, then processReactFlowData
Generate ==
    /\ pc = "generate"
    /\ LET result == processReactFlowData(args.nodes, heap, ConfigOf(args))
       IN  /\ flowNodes' = result.nodes
           /\ pc' = IF result.error THEN "TypeError" ELSE "generated"
    /\ UNCHANGED <<args, heap, chartVars, groupVars, layoutVars, loopVars, tableVars>>


\* the caller assigns to the position of an output node
ChangePosition ==
    /\ pc = "generated"
    /\ \E k \in DOMAIN flowNodes :
          flowNodes' = [flowNodes EXCEPT ![k].position = [x |-> -1, y |-> -1]]
    /\ pc' = "changed"
    /\ UNCHANGED <<args, heap, chartVars, groupVars, layoutVars, loopVars, tableVars>>

\* the caller assigns to the parentNode of an output node
ChangeParent ==
    /\ pc = "generated"
    /\ \E k \in DOMAIN flowNodes :
          flowNodes' = [flowNodes EXCEPT ![k].parentNode = GroupPrefix]
    /\ pc' = "changed"
    /\ UNCHANGED <<args, heap, chartVars, groupVars, layoutVars, loopVars, tableVars>>

\* the caller assigns node.data.properties.g = "Y" on an output node: the
\* object assigned to is the one data.properties refers to
ChangeProperties ==
    /\ pc = "generated"
    /\ \E k \in DOMAIN flowNodes :
          IF "propertiesRef" \in DOMAIN flowNodes[k]
          THEN /\ heap' = [heap EXCEPT ![flowNodes[k].propertiesRef] = [g |-> StringY]]
               /\ flowNodes' = [i \in DOMAIN flowNodes |->
                      IF /\ "propertiesRef" \in DOMAIN flowNodes[i]
                         /\ flowNodes[i].propertiesRef = flowNodes[k].propertiesRef
                      THEN [flowNodes[i] EXCEPT !.properties = [g |-> StringY]]
                      ELSE flowNodes[i]]
          ELSE /\ flowNodes' = [flowNodes EXCEPT ![k].properties = [g |-> StringY]]
               /\ heap' = heap
    /\ pc' = "changed"
    /\ UNCHANGED <<args, chartVars, groupVars, layoutVars, loopVars, tableVars>>

NextFlow == Generate \/ ChangePosition \/ ChangeParent \/ ChangeProperties

SpecFlow == InitFlow /\ [][NextFlow]_vars

----------------------------------------------------------------------------
(* Properties of generate *)

\* a zero or negative width or height, or a negative nodeSpacing or rankSpacing
InvalidConfig ==
    LET config == ConfigOf(args)
    IN  \/ config.width <= 0 \/ config.height <= 0
        \/ config.nodeSpacing < 0 \/ config.rankSpacing < 0

\* C18: a call with an invalid configuration ends in a configuration error
\* and produces no layout; the value is never used, replaced or clamped to
\* carry on.
C18_InvalidConfigFailsFast ==
    (pc # "generate" /\ InvalidConfig) => (pc = "ConfigError" /\ flowNodes = <<>>)

\* C19: what the caller owns never changes: generate leaves the caller's
\* nodes and their properties objects as they are, and so does a later
\* change to the position, the parent or the properties of an output node.
C19_NoAliasing == [][args' = args /\ heap' = heap]_vars

\* C21: whenever processChartData returns no point, generate returns the
\* 'No data available' visualization as a normal result and determineChartType
\* is not called: the call ends in "empty" with no chart type chosen, and a
\* call that reaches determineChartType holds at least one point.
C21_NoDataState ==
    /\ (Normalized /\ Len(chartData) = 0) => (pc = "empty" /\ chartType = "none")
    /\ pc = "empty" => Len(chartData) = 0

\* a non-empty records list without any key ends in the no-data state
C21_Witness ==
    /\ pc = "empty"
    /\ RecordsInput /\ Len(TheRecords) >= 1
    /\ chartType = "none"

\* the ids of the input nodes are pairwise distinct
DistinctInputIds == \A i, j \in DOMAIN nodes : nodes[i].id = nodes[j].id => i = j

\* C23: for input nodes with pairwise distinct ids the returned nodes have
\* pairwise distinct ids: no group id "group-" + value equals another group
\* id or the id of an input node, also when an input id reads "group-X".
C23_DistinctOutputIds ==
    (pc = "grouped" /\ DistinctInputIds) =>
        \A k, l \in DOMAIN grouped : grouped[k].id = grouped[l].id => k = l

----------------------------------------------------------------------------
(* The simulation loop of the two layouts, statement by statement:          *)
(* part_002:535-581 and reactflow.ts:1816-1861. One step is one visit of a  *)
(* forEach callback. vx and vy of calculateForceLayout and the forces       *)
(* object of calculateNodeLayout are both held in the variable forces.      *)

\* largest number of nodes whose loop is followed visit by visit
MaxLoopNodes == 3

\* the order of the nodes array: ascending or descending ids
Orders(n) == {[i \in 1..n |-> i], [i \in 1..n |-> n + 1 - i]}

LoopLinkChoices ==
    {<<>>, <<Link(1, 2)>>, <<Link(1, 1)>>, <<Link(1, 2), Link(2, 3)>>,
     <<Link(2, 3), Link(1, 2)>>}

IndexOf(seq, e) == CHOOSE i \in 1..Len(seq) : seq[i] = e

\* Math.random() in thousandths for the loop followed visit by visit: two
\* nodes with the same draws start on the same point
LoopDraws == {<<0, 0>>, <<999, 500>>}

ZeroForce == [x |-> 0, y |-> 0]

IterationsInUse == IF layoutFn = "force" THEN ForceIterations ELSE NodeIterations
RepulsionInUse == IF layoutFn = "force" THEN ForceRepulsion ELSE NodeRepulsion
AttractionInUse == IF layoutFn = "force" THEN ForceAttraction ELSE NodeAttraction
\* calculateNodeLayout has no alpha: its forces are taken in full
AlphaInUse == IF layoutFn = "force" THEN Alpha(iteration) ELSE 100
\* x += vx, resp. x += forces.x * 0.1
StepOf(f) == IF layoutFn = "force" THEN f ELSE TruncDiv(f, NodeStepDivisor)

\* the state at the head of the loop: the nodes placed at random (part_002:
\* 525-532) or on the circle (reactflow.ts:1807-1813), iteration = 0
InitLoop ==
    /\ pc = "reset"
    /\ layoutFn \in {"force", "node"}
    /\ \E n \in 1..MaxLoopNodes : graphNodes \in Orders(n)
    /\ layoutFn = "node" => Len(graphNodes) >= 3
    /\ links \in LoopLinkChoices
    /\ ~Dangling(links, graphNodes)
    /\ IF layoutFn = "force"
       THEN \E draws \in [1..Len(graphNodes) -> LoopDraws] :
               positions = [id \in 1..Len(graphNodes) |->
                   [x |-> RandomCoordinate(draws[id][1], ForceMargin, svgWidth),
                    y |-> RandomCoordinate(draws[id][2], ForceMargin, svgHeight)]]
       ELSE LET centerX == (svgWidth * Scale) \div 2
                centerY == (svgHeight * Scale) \div 2
                radius == (Minimum(svgWidth, svgHeight) * Scale) \div 3
            IN  positions = [id \in 1..Len(graphNodes) |->
                   [x |-> centerX + Cosine(IndexOf(graphNodes, id) - 1,
                                           Len(graphNodes), radius),
                    y |-> centerY + Sine(IndexOf(graphNodes, id) - 1,
                                         Len(graphNodes), radius)]]
    /\ iteration = 0
    /\ forces = [id \in 1..Len(graphNodes) |-> ZeroForce]
    /\ cursor = 1
    /\ startPositions = positions
    /\ NoChartCall
    /\ NoGroupCall
    /\ NoFlowCall
    /\ NoTableCall

\* part_002:539-542, reactflow.ts:1817-1822: the forces are set to zero
LoopReset ==
    /\ pc = "reset"
    /\ iteration < IterationsInUse
    /\ forces' = [id \in DOMAIN positions |-> ZeroForce]
    /\ startPositions' = positions
    /\ cursor' = 1
    /\ pc' = "repel"
    /\ UNCHANGED <<chartVars, groupVars, layoutVars, flowVars, tableVars>>

\* mutant: the node visited is moved as soon as its repulsion is known
LoopRepel_InPlace ==
    /\ pc = "repel"
    /\ LET a == graphNodes[cursor]
           r == RepulsionSum(positions, a, graphNodes, RepulsionInUse, AlphaInUse)
       IN  /\ forces' = [forces EXCEPT ![a] = [x |-> @.x + r.x, y |-> @.y + r.y]]
           /\ positions' = [positions EXCEPT ![a] =
                 [x |-> Clamp(@.x + StepOf(r.x), MarginInUse, svgWidth),
                  y |-> Clamp(@.y + StepOf(r.y), MarginInUse, svgHeight)]]
    /\ IF cursor < Len(graphNodes)
       THEN cursor' = cursor + 1 /\ pc' = pc
       ELSE cursor' = 1 /\ pc' = IF links = <<>> THEN "apply" ELSE "attract"
    /\ UNCHANGED <<chartVars, groupVars, layoutFn, graphNodes, links, iteration,
                   startPositions, flowVars, tableVars>>

\* part_002:545-557, reactflow.ts:1825-1837: one visit of the outer forEach,
\* nodeA = nodes[cursor], with its inner forEach over nodeB
LoopRepel ==
    /\ pc = "repel"
    /\ LET a == graphNodes[cursor]
           r == RepulsionSum(positions, a, graphNodes, RepulsionInUse, AlphaInUse)
       IN  forces' = [forces EXCEPT ![a] = [x |-> @.x + r.x, y |-> @.y + r.y]]
    /\ IF cursor < Len(graphNodes)
       THEN cursor' = cursor + 1 /\ pc' = pc
       ELSE cursor' = 1 /\ pc' = IF links = <<>> THEN "apply" ELSE "attract"
    /\ UNCHANGED <<chartVars, groupVars, layoutVars, startPositions, flowVars,
                   tableVars>>

\* part_002:560-570, reactflow.ts:1840-1850: one visit of links.forEach
LoopAttract ==
    /\ pc = "attract"
    /\ forces' = [id \in DOMAIN forces |->
          LET a == Attraction(positions, id, links[cursor], AttractionInUse, AlphaInUse)
          IN  [x |-> forces[id].x + a.x, y |-> forces[id].y + a.y]]
    /\ IF cursor < Len(links)
       THEN cursor' = cursor + 1 /\ pc' = pc
       ELSE cursor' = 1 /\ pc' = "apply"
    /\ UNCHANGED <<chartVars, groupVars, layoutVars, startPositions, flowVars,
                   tableVars>>

\* part_002:573-580, reactflow.ts:1853-1860: one visit of the last forEach:
\* the node is moved by its force and clamped; after the last node the
\* iteration is over
LoopApply ==
    /\ pc = "apply"
    /\ LET id == graphNodes[cursor]
       IN  positions' = [positions EXCEPT ![id] =
              [x |-> Clamp(@.x + StepOf(forces[id].x), MarginInUse, svgWidth),
               y |-> Clamp(@.y + StepOf(forces[id].y), MarginInUse, svgHeight)]]
    /\ IF cursor < Len(graphNodes)
       THEN cursor' = cursor + 1 /\ pc' = pc /\ iteration' = iteration
       ELSE cursor' = 1 /\ pc' = "reset" /\ iteration' = iteration + 1
    /\ UNCHANGED <<chartVars, groupVars, layoutFn, graphNodes, links, forces,
                   startPositions, flowVars, tableVars>>

\* part_002:583, reactflow.ts:1863
LoopReturn ==
    /\ pc = "reset"
    /\ iteration = IterationsInUse
    /\ pc' = "returned"
    /\ UNCHANGED <<chartVars, groupVars, layoutVars, flowVars, loopVars, tableVars>>

NextLoop == LoopReset \/ LoopRepel \/ LoopAttract \/ LoopApply \/ LoopReturn

SpecLoop == InitLoop /\ [][NextLoop]_vars

----------------------------------------------------------------------------
(* Properties of the simulation loop *)

Reverse(seq) == [i \in 1..Len(seq) |-> seq[Len(seq) + 1 - i]]

\* the positions one iteration yields from the positions pos, every force
\* taken from pos, the nodes visited in ascending order and the links in the
\* reverse of the order given
BarrierResult(pos, it) ==
    LET ns == [i \in 1..Len(graphNodes) |-> i]
        next == IF layoutFn = "force" THEN ForceIteration(pos, ns, Reverse(links), it)
                ELSE NodeIteration(pos, ns, Reverse(links))
    IN  [id \in DOMAIN pos |-> [x |-> next[id].x, y |-> next[id].y]]

\* the whole force on a node, computed from the positions pos
ForceFrom(pos, id) ==
    LET r == RepulsionSum(pos, id, graphNodes, RepulsionInUse, AlphaInUse)
        a == AttractionSum(pos, id, links, AttractionInUse, AlphaInUse)
    IN  [x |-> r.x + a.x, y |-> r.y + a.y]

\* the loop is accumulating forces
ForcePhase == pc \in {"repel", "attract"}

\* C24: in the force phase of an iteration no position changes, so every
\* force is computed from the positions the iteration began with; when the
\* first node is moved every force is complete; and when the iteration is
\* over the positions are those that the start positions give whatever the
\* order of the nodes and of the links.
C24_IterationBarrier ==
    /\ [][ForcePhase => positions' = positions]_vars
    /\ [](ForcePhase => positions = startPositions)
    /\ [](pc = "apply" =>
            \A id \in DOMAIN forces : forces[id] = ForceFrom(startPositions, id))
    /\ []((pc \in {"reset", "returned"} /\ iteration >= 1) =>
            positions = BarrierResult(startPositions, iteration - 1))

\* an iteration of three nodes visited in descending order, with two links,
\* has ended and has moved a node
C24_Witness ==
    /\ pc = "reset" /\ iteration >= 1
    /\ graphNodes = <<3, 2, 1>>
    /\ Len(links) = 2
    /\ positions # startPositions

\* the whole force on a node, computed from the positions pos and scaled by
\* alpha (in hundredths)
DampedForceFrom(pos, id, alpha) ==
    LET r == RepulsionSum(pos, id, graphNodes, RepulsionInUse, alpha)
        a == AttractionSum(pos, id, links, AttractionInUse, alpha)
    IN  [x |-> r.x + a.x, y |-> r.y + a.y]

\* C25: in every iteration of calculateForceLayout and of calculateNodeLayout
\* the repulsion and attraction forces are scaled by alpha, which is 1 in
\* the first iteration, falls by 1/100 with every iteration and is never
\* below 0.01.
C25_DampingSchedule ==
    pc = "apply" =>
        \A id \in DOMAIN forces :
            forces[id] = DampedForceFrom(startPositions, id, Maximum(1, 100 - iteration))

Absolute(v) == IF v >= 0 THEN v ELSE -v

\* an iteration is about to run on the positions
AboutToIterate ==
    /\ pc = "simulate" /\ ~Dangling(links, graphNodes)
    /\ iteration < (IF layoutFn = "force" THEN ForceIterations ELSE NodeIterations)

\* C26: for every pair of distinct nodes the repulsion loop uses the distance
\* max(actual distance, 1), so that the push on a node is never more than
\* k_repel pixels, and the two nodes of the pair are pushed by equal and
\* opposite amounts.
C26_RepulsionStep ==
    AboutToIterate =>
        \A a, b \in DOMAIN positions :
            a # b =>
                LET dx == positions[a].x - positions[b].x
                    dy == positions[a].y - positions[b].y
                    k == IF layoutFn = "force" THEN ForceRepulsion ELSE NodeRepulsion
                    alpha == IF layoutFn = "force" THEN Alpha(iteration) ELSE 100
                    onA == Repulsion(positions, a, b, k, alpha)
                    onB == Repulsion(positions, b, a, k, alpha)
                IN  /\ Distance(dx, dy) = Maximum(Scale, Sqrt(dx * dx + dy * dy))
                    /\ Absolute(onA.x) <= k * Scale /\ Absolute(onA.y) <= k * Scale
                    /\ onA.x = -onB.x /\ onA.y = -onB.y

\* positions of the output holding the children of the group node at k
ChildrenOf(k) ==
    {l \in DOMAIN grouped :
        grouped[l].type = "lineageNode" /\ grouped[l].parentNode = grouped[k].id}

\* 0-based rank of the child at l among the children of the group node at k
RankIn(k, l) == Cardinality({m \in ChildrenOf(k) : m < l})

\* C27: a group node is 300 wide and max(100, memberCount * 60 + 40) high;
\* its k-th child (from 0) is at (20, 40 + k * 60) and 260 x 50 in size, so
\* every child ends above the lower edge of the container and no two
\* children of a group overlap.
C27_ContainerSizing ==
    pc = "grouped" =>
        \A k \in DOMAIN grouped :
            grouped[k].type = "groupNode" =>
                LET memberCount == Cardinality(ChildrenOf(k))
                IN  /\ memberCount >= 2
                    /\ grouped[k].childCount = memberCount
                    /\ grouped[k].style.width = 300
                    /\ grouped[k].style.height =
                          (IF memberCount * 60 + 40 > 100 THEN memberCount * 60 + 40 ELSE 100)
                    /\ \A l \in ChildrenOf(k) :
                          /\ grouped[l].position = [x |-> 20, y |-> 40 + RankIn(k, l) * 60]
                          /\ grouped[l].style = [width |-> 260, height |-> 50]
                          /\ grouped[l].position.y + grouped[l].style.height
                                <= grouped[k].style.height
                          /\ grouped[l].position.x + grouped[l].style.width
                                <= grouped[k].style.width
                    /\ \A l, m \in ChildrenOf(k) :
                          l < m => grouped[l].position.y + grouped[l].style.height
                                      <= grouped[m].position.y

\* a group of three members, 220 high, whose last child ends at 210
C27_Witness ==
    /\ pc = "grouped"
    /\ \E k \in DOMAIN grouped :
          /\ grouped[k].type = "groupNode" /\ Cardinality(ChildrenOf(k)) = 3
          /\ grouped[k].style.height = 220
          /\ \E l \in ChildrenOf(k) : grouped[l].position.y + grouped[l].style.height = 210

\* C28: the call returns, every input node is in the output exactly once, as
\* a child of one group or as an ungrouped node, and the output holds the
\* input nodes and the group nodes and nothing else.
C28_NodesConserved ==
    GroupEnded =>
        /\ pc = "grouped"
        /\ DistinctInputIds => \A i \in DOMAIN nodes : Cardinality(OutputsOf(i)) = 1
        /\ Len(grouped) = Len(nodes)
              + Cardinality({k \in DOMAIN grouped : grouped[k].type = "groupNode"})
        /\ \A k \in DOMAIN grouped :
              (grouped[k].type = "lineageNode" /\ grouped[k].parentNode # NoParent) =>
                  Cardinality({j \in DOMAIN grouped :
                      grouped[j].type = "groupNode" /\ grouped[j].id = grouped[k].parentNode}) = 1

\* the query result holds more than one of records, nodes and relationships
SeveralCollections ==
    queryData.kind = "data" /\ Cardinality(DOMAIN queryData.collections) >= 2

\* the collection that comes first in the order records, nodes, relationships
FirstCollection ==
    IF HasArray(queryData, "records") THEN "records"
    ELSE IF HasArray(queryData, "nodes") THEN "nodes" ELSE "relationships"

\* C29: a query result with several collections is normalized from the first
\* of records, nodes, relationships alone: the call ends as it does for a
\* query result holding that collection only; in particular an empty records
\* list gives no point whatever nodes and relationships hold, and an empty
\* nodes list gives no point whatever relationships holds.
C29_DispatchPriority ==
    (NormalizeEnded /\ SeveralCollections) =>
        LET alone == processChartData(
                        CollectionInput(FirstCollection,
                                        queryData.collections[FirstCollection]))
        IN  /\ (pc = "TypeError") = alone.error
            /\ ~alone.error => chartData = alone.points
            /\ queryData.collections[FirstCollection] = <<>> =>
                  pc = "empty" /\ chartData = <<>>

\* an empty records list beside a node with a label: no point is returned,
\* although the nodes alone give one
C29_Witness ==
    /\ pc = "empty"
    /\ SeveralCollections
    /\ HasArray(queryData, "records") /\ queryData.collections["records"] = <<>>
    /\ HasArray(queryData, "nodes")
    /\ ~processChartData(CollectionInput("nodes", queryData.collections["nodes"])).error
    /\ processChartData(CollectionInput("nodes", queryData.collections["nodes"])).points # <<>>

----------------------------------------------------------------------------
(* The script of the table page, table.ts:299-410: the records are cut into *)
(* pages; the search box, the page size select and the Previous / Next      *)
(* buttons are the events. A record is modelled by its row number and the   *)
(* string value of its one column.                                          *)

\* largest number of records of a table
MaxRecords == 101

\* String.prototype.toLowerCase on A-Z
ToLowerCase(str) ==
    [i \in 1..Len(str) |-> IF str[i] >= 65 /\ str[i] <= 90 THEN str[i] + 32 ELSE str[i]]

\* String.prototype.trim for the blank
RECURSIVE Trim(_)
Trim(str) ==
    IF str = <<>> THEN <<>>
    ELSE IF Head(str) = 32 THEN Trim(Tail(str))
    ELSE IF str[Len(str)] = 32 THEN Trim(SubSeq(str, 1, Len(str) - 1))
    ELSE str

\* String.prototype.includes
Includes(str, term) ==
    \E i \in 0..(Len(str) - Len(term)) : SubSeq(str, i + 1, i + Len(term)) = term

\* Array.prototype.slice(startIndex, endIndex), indices counted from 0; a
\* negative index counts from the end
Slice(seq, startIndex, endIndex) ==
    LET relative(k) == IF k < 0 THEN Maximum(Len(seq) + k, 0) ELSE Minimum(k, Len(seq))
        first == relative(startIndex)
        last == relative(endIndex)
    IN  IF first >= last THEN <<>>
        ELSE [i \in 1..(last - first) |-> seq[first + i]]

\* Math.ceil(a / b) for a >= 0, b > 0
Ceil(a, b) == (a + b - 1) \div b

\* the values of pageSize: 'all' or a number
AllRecords == [all |-> TRUE, size |-> 0]
PageOf(n) == [all |-> FALSE, size |-> n]

\* the options of the select, table.ts:284-287
PageSizeOptions == {PageOf(25), PageOf(50), PageOf(100), AllRecords}

\* what is typed into the search box: "", " ", "a", "A", " a", "b", "z"
SearchTerms == {<<>>, <<32>>, <<97>>, <<65>>, <<32, 97>>, <<98>>, <<122>>}

\* the column values "Ab" and "b"
TableRecord(row, value) == [row |-> row, value |-> value]

\* table.ts:305-325: the rows renderTable puts into the table body
renderTable(records, page, size) ==
    LET startIndex == IF size.all THEN 0 ELSE (page - 1) * size.size
        endIndex == IF size.all THEN Len(records) ELSE startIndex + size.size
    IN  Slice(records, startIndex, endIndex)

\* table.ts:350-365: the records of which some column includes the term
RECURSIVE Filter(_, _)
Filter(records, term) ==
    IF records = <<>> THEN <<>>
    ELSE (IF Includes(ToLowerCase(Head(records).value), term)
          THEN <<Head(records)>> ELSE <<>>) \o Filter(Tail(records), term)

\* the page as the script leaves it when loaded (table.ts:299-303, 409)
InitTable ==
    /\ pc = "loaded"
    /\ \E n \in 1..MaxRecords, period \in 1..3 :
          allRecords = [i \in 1..n |->
              TableRecord(i, IF i % period = 0 THEN <<65, 98>> ELSE <<98>>)]
    /\ filteredRecords = allRecords
    /\ currentPage = 1
    /\ pageSize = PageOf(50)
    /\ pageRecords = renderTable(filteredRecords, currentPage, pageSize)
    /\ NoChartCall
    /\ NoGroupCall
    /\ NoLayoutCall
    /\ NoFlowCall
    /\ NoLoopCall

\* mutant: the new page is not held between 1 and totalPages
changePage_Unclamped(direction) ==
    /\ pc' = "changePage"
    /\ IF pageSize.all
       THEN UNCHANGED <<currentPage, pageRecords>>
       ELSE /\ currentPage' = currentPage + direction
            /\ pageRecords' = renderTable(filteredRecords, currentPage', pageSize)
    /\ UNCHANGED <<allRecords, filteredRecords, pageSize, chartVars, groupVars,
                   layoutVars, flowVars, loopVars>>

\* table.ts:342-348
changePage(direction) ==
    /\ pc' = "changePage"
    /\ IF pageSize.all
       THEN UNCHANGED <<currentPage, pageRecords>>
       ELSE LET totalPages == Ceil(Len(filteredRecords), pageSize.size)
            IN  /\ currentPage' = Maximum(1, Minimum(totalPages, currentPage + direction))
                /\ pageRecords' = renderTable(filteredRecords, currentPage', pageSize)
    /\ UNCHANGED <<allRecords, filteredRecords, pageSize, chartVars, groupVars,
                   layoutVars, flowVars, loopVars>>

\* table.ts:350-366, called by the input listener of the search box (398-400)
filterRecords(searchTerm) ==
    /\ pc' = "filterRecords"
    /\ filteredRecords' = IF Trim(searchTerm) = <<>> THEN allRecords
                          ELSE Filter(allRecords, ToLowerCase(searchTerm))
    /\ currentPage' = 1
    /\ pageRecords' = renderTable(filteredRecords', currentPage', pageSize)
    /\ UNCHANGED <<allRecords, pageSize, chartVars, groupVars, layoutVars, flowVars,
                   loopVars>>

\* table.ts:402-406: the change listener of the page size select
pageSizeChange(value) ==
    /\ pc' = "pageSizeChange"
    /\ pageSize' = value
    /\ currentPage' = 1
    /\ pageRecords' = renderTable(filteredRecords, currentPage', pageSize')
    /\ UNCHANGED <<allRecords, filteredRecords, chartVars, groupVars, layoutVars,
                   flowVars, loopVars>>

NextTable ==
    \/ \E direction \in {1, -1} : changePage(direction)
    \/ \E searchTerm \in SearchTerms : filterRecords(searchTerm)
    \/ \E value \in PageSizeOptions : pageSizeChange(value)

SpecTable == InitTable /\ [][NextTable]_vars

----------------------------------------------------------------------------
(* Properties of the table page *)

\* totalPages as updatePaginationInfo shows it
TotalPages == IF pageSize.all THEN 1 ELSE Ceil(Len(filteredRecords), pageSize.size)

\* C30: after any sequence of searches, page size changes and changePage
\* calls the current page is between 1 and max(1, totalPages); the rendered
\* page is not empty when some record passes the filter; a search or a page
\* size change puts the current page back to 1; and changePage changes
\* nothing while the page size is 'all'.
C30_Pagination ==
    /\ [](/\ 1 <= currentPage
          /\ currentPage <= Maximum(1, TotalPages)
          /\ filteredRecords # <<>> => pageRecords # <<>>)
    /\ [][pc' \in {"filterRecords", "pageSizeChange"} => currentPage' = 1]_vars
    /\ [][(pc' = "changePage" /\ pageSize.all) => UNCHANGED tableVars]_vars

\* Next was pressed on the last page of a filtered list: the page stays the
\* last one and shows the remaining records
C30_Witness ==
    /\ pc = "changePage"
    /\ ~pageSize.all
    /\ Len(filteredRecords) < Len(allRecords)
    /\ TotalPages >= 2 /\ currentPage = TotalPages
    /\ pageRecords # <<>> /\ Len(pageRecords) < pageSize.size

=============================================================================
